---- MODULE Spec2Model ----
(***************************************************************************)
(* Model of swole.py: the interactive widgets (InteractiveMenu,            *)
(* InputPrompt, TabbedView) in their key-driven and line-based modes.      *)
(*                                                                         *)
(* Python objects are tagged records, so that None, a string, a dict and a *)
(* set are values of one universe and can be compared with each other.     *)
(* Text typed by the user is a sequence of one-character strings, so that  *)
(* str.strip, str.split, str.lower and int() are computed, not assumed.    *)
(***************************************************************************)
EXTENDS Integers, Sequences, FiniteSets, TLC

\* ------------------------------------------------------------------ bounds
MaxItems == 3
MaxInput == 3
MaxBuffer == 2
MaxTabs == 4

\* ---------------------------------------------------------- Python objects
PyNone == [kind |-> "None", v |-> "None"]
PyStr(s) == [kind |-> "str", v |-> s]
PyDict(d) == [kind |-> "dict", v |-> d]
PySet(S) == [kind |-> "set", v |-> S]

\* hash(v) succeeds for str, raises TypeError for dict
Hashable(val) == val.kind # "dict"

\* the values the handlers put in the third component of an item: literal
\* strings and ids, or the exercise / routine record itself
StrValues == {PyStr("log"), PyStr("back")}
DictValues == {PyDict("pushups")}
\* a handler that gives an item the value None
ItemValuesWithNone == StrValues \cup DictValues \cup {PyNone}
ItemValues == StrValues \cup DictValues

Item(val) == <<"label", "desc", val>>

RECURSIVE SeqsUpTo(_, _)
SeqsUpTo(S, n) ==
    IF n = 0 THEN {<<>>}
    ELSE LET shorter == SeqsUpTo(S, n - 1)
         IN shorter \cup {Append(s, x) : s \in {t \in shorter : Len(t) = n - 1}, x \in S}

ItemLists == SeqsUpTo({Item(val) : val \in ItemValues}, MaxItems)

\* ------------------------------------------------------------ typed text
InputChars == {"0", "1", "3", " ", "-", ",", "x"}
InputLines == SeqsUpTo(InputChars, MaxInput)

IsSpace(c) == c = " "
IsDigit(c) == c \in {"0", "1", "2", "3", "4", "5", "6", "7", "8", "9"}
DigitVal(c) ==
    CASE c = "0" -> 0 [] c = "1" -> 1 [] c = "2" -> 2 [] c = "3" -> 3
      [] c = "4" -> 4 [] c = "5" -> 5 [] c = "6" -> 6 [] c = "7" -> 7
      [] c = "8" -> 8 [] c = "9" -> 9

RECURSIVE LStrip(_)
LStrip(s) == IF s # <<>> /\ IsSpace(Head(s)) THEN LStrip(Tail(s)) ELSE s

RECURSIVE RStrip(_)
RStrip(s) ==
    IF s # <<>> /\ IsSpace(s[Len(s)]) THEN RStrip(SubSeq(s, 1, Len(s) - 1)) ELSE s

\* str.strip()
Strip(s) == RStrip(LStrip(s))

RECURSIVE DigitsVal(_)
DigitsVal(s) ==
    IF s = <<>> THEN 0
    ELSE DigitsVal(SubSeq(s, 1, Len(s) - 1)) * 10 + DigitVal(s[Len(s)])

\* int(s): ok is FALSE where Python raises ValueError
PyInt(s) ==
    LET t == Strip(s)
        signed == t # <<>> /\ t[1] \in {"-", "+"}
        body == IF signed THEN Tail(t) ELSE t
        ok == body # <<>> /\ \A i \in 1..Len(body) : IsDigit(body[i])
    IN [ok |-> ok,
        val |-> IF ~ok THEN 0
                ELSE IF signed /\ t[1] = "-" THEN 0 - DigitsVal(body)
                ELSE DigitsVal(body)]

\* str.split(sep)
RECURSIVE Split(_, _)
Split(s, sep) ==
    IF \E i \in 1..Len(s) : s[i] = sep
    THEN LET i == CHOOSE k \in 1..Len(s) :
                      s[k] = sep /\ \A j \in 1..(k - 1) : s[j] # sep
         IN <<SubSeq(s, 1, i - 1)>> \o Split(SubSeq(s, i + 1, Len(s)), sep)
    ELSE <<s>>

Min(a, b) == IF a < b THEN a ELSE b
Max(a, b) == IF a > b THEN a ELSE b

\* ------------------------------------------------------------------ state
VARIABLES
    PROMPT_TOOLKIT_AVAILABLE,   \* module flag set at import
    items,          \* InteractiveMenu.items: sequence of (label, desc, value)
    passed,         \* the set the caller gave the constructor as `selected`
    multi_select,   \* InteractiveMenu.multi_select
    selected,       \* InteractiveMenu.selected: a Python set
    cursor,         \* InteractiveMenu.cursor (0-based)
    result,         \* InteractiveMenu.result
    cancelled,      \* InteractiveMenu.cancelled
    menu_pc,        \* where run() is: constructed, active, input, returned, raised
    menu_ret,       \* the object run() returned
    menu_exc,       \* the exception last raised inside run()
    last_key,       \* the last key event the menu handled
    menu_input,     \* the last line input() gave the fallback menu
    cursor_before,  \* cursor when the last event arrived
    selected_before,\* selected when the last event arrived
    key_before,     \* the event handled before the last one
    ip_default,     \* InputPrompt.default
    ip_cancelled,   \* InputPrompt.cancelled
    ip_buffer,      \* the text in the prompt's input line
    ip_pc,          \* where InputPrompt.run() is
    ip_ret,         \* the object InputPrompt.run() returned
    ip_last,        \* the last event the prompt handled
    tabs,           \* TabbedView.tabs: sequence of (label, renderer)
    current_tab,    \* TabbedView.current_tab (0-based)
    tab_pc,         \* where TabbedView.run() is
    tab_last,       \* the last event the view handled
    tab_input,      \* the last line input() gave the fallback view
    tab_before,     \* current_tab when the last event arrived
    now,            \* datetime.datetime.now(), in seconds
    today,          \* datetime.date.today(), as a day number
    utc_today,      \* the UTC date, which SQLite's CURRENT_TIMESTAMP and date() use
    EXERCISES,      \* the "exercises" list of the bundled EXERCISES_FILE
    config_file,    \* CONFIG_FILE: absent, or the JSON document in it
    day_file,       \* DAY_FILE: absent, or the JSON document in it
    pending_file,   \* PENDING_FILE: absent, or the JSON document in it
    last_suggested_file, \* SWOLE_DIR/"last_suggested": absent, or its text
    tables_exist,   \* whether init_db() has created the tables in DB_PATH
    exercises_rows, \* the rows of table exercises, in insertion order
    routine_rows,   \* the rows of table routine_completions
    log_file,       \* LOG_FILE: absent, or its lines
    notifications,  \* the notifications handed to the OS so far
    cmd,            \* the last command or function that ran
    cmd_arg,        \* its argument
    cmd_out,        \* the lines it printed
    cmd_exc,        \* the exception it ended with, or "none"
    cmd_ret,        \* the object it returned
    pre,            \* the stored documents as they were before it ran
    latest,         \* the last suggestion written and not yet consumed
    suggested,      \* the number of suggestions made so far
    app_pc,         \* main_menu(): idle, running, ended, or crashed
    app_exc,        \* the exception that ended main_menu(), or "none"
    stack,          \* the call stack under main_menu(): frames (fn, pc, loc)
    app_config,     \* the dict main_menu holds in `config`
    app_ret,        \* the object the last finished call returned
    app_ev          \* the last widget outcome a handler received

menu_vars == <<items, passed, multi_select, selected, cursor, result, cancelled,
               menu_pc, menu_ret, menu_exc, last_key, menu_input,
               cursor_before, selected_before, key_before>>
prompt_vars == <<ip_default, ip_cancelled, ip_buffer, ip_pc, ip_ret, ip_last>>
tab_vars == <<tabs, current_tab, tab_pc, tab_last, tab_input, tab_before>>

store_vars == <<now, today, utc_today, EXERCISES, config_file, day_file, pending_file,
                last_suggested_file, tables_exist, exercises_rows, routine_rows,
                log_file, notifications>>
cmd_vars == <<cmd, cmd_arg, cmd_out, cmd_exc, cmd_ret, pre, latest, suggested>>
app_vars == <<app_pc, app_exc, stack, app_config, app_ret, app_ev>>

vars == <<PROMPT_TOOLKIT_AVAILABLE, menu_vars, prompt_vars, tab_vars, store_vars,
          cmd_vars, app_vars>>

\* what no method of InteractiveMenu touches
menu_frame ==
    <<PROMPT_TOOLKIT_AVAILABLE, prompt_vars, tab_vars, store_vars, cmd_vars, app_vars>>
\* what no method of InputPrompt touches
prompt_frame ==
    <<PROMPT_TOOLKIT_AVAILABLE, menu_vars, tab_vars, store_vars, cmd_vars, app_vars>>
\* what no method of TabbedView touches
tab_frame ==
    <<PROMPT_TOOLKIT_AVAILABLE, menu_vars, prompt_vars, store_vars, cmd_vars, app_vars>>

\* ----------------------------------------------------------- InputPrompt
PromptChars == {"5", " "}
PromptDefaults == SeqsUpTo({"5"}, MaxBuffer)

\* InputPrompt.__init__
PromptInit ==
    /\ ip_default \in PromptDefaults
    /\ ip_cancelled = FALSE
    /\ ip_buffer = <<>>
    /\ ip_pc = "constructed"
    /\ ip_ret = PyNone
    /\ ip_last = "none"

\* no prompt is open
PromptIdle ==
    /\ ip_default = <<>>
    /\ ip_cancelled = FALSE
    /\ ip_buffer = <<>>
    /\ ip_pc = "idle"
    /\ ip_ret = PyNone
    /\ ip_last = "none"

\* run() up to the point where it waits for the user: pt_prompt shows the
\* default as editable text, input() starts with an empty line
PromptRun ==
    /\ ip_pc = "constructed"
    /\ IF PROMPT_TOOLKIT_AVAILABLE
       THEN ip_pc' = "active" /\ ip_buffer' = ip_default
       ELSE ip_pc' = "input" /\ ip_buffer' = <<>>
    /\ UNCHANGED <<prompt_frame, ip_default, ip_cancelled, ip_ret, ip_last>>

\* the user types a character into the line
prompt_type ==
    /\ ip_pc \in {"active", "input"}
    /\ Len(ip_buffer) < MaxBuffer
    /\ \E c \in PromptChars : ip_buffer' = Append(ip_buffer, c)
    /\ ip_last' = "char"
    /\ UNCHANGED <<prompt_frame, ip_default, ip_cancelled, ip_pc, ip_ret>>

\* the user deletes the last character of the line
prompt_backspace ==
    /\ ip_pc \in {"active", "input"}
    /\ ip_buffer # <<>>
    /\ ip_buffer' = SubSeq(ip_buffer, 1, Len(ip_buffer) - 1)
    /\ ip_last' = "backspace"
    /\ UNCHANGED <<prompt_frame, ip_default, ip_cancelled, ip_pc, ip_ret>>

\* run() after pt_prompt returned the line
prompt_result(text) == IF ip_cancelled THEN PyNone ELSE PyStr(text)

\* _fallback after input() returned the line
prompt_fallback_result(text) ==
    LET r == Strip(text) IN IF r # <<>> THEN PyStr(r) ELSE PyStr(ip_default)

\* Enter: the line is submitted
prompt_enter ==
    /\ ip_pc \in {"active", "input"}
    /\ ip_last' = "enter"
    /\ ip_ret' = IF ip_pc = "active"
                 THEN prompt_result(ip_buffer)
                 ELSE prompt_fallback_result(ip_buffer)
    /\ ip_pc' = "returned"
    /\ UNCHANGED <<prompt_frame, ip_default, ip_cancelled, ip_buffer>>

\* Escape in the key-driven prompt: pt_prompt returns None
prompt_cancel ==
    /\ ip_pc = "active"
    /\ ip_last' = "escape"
    /\ ip_cancelled' = TRUE
    /\ ip_ret' = PyNone
    /\ ip_pc' = "returned"
    /\ UNCHANGED <<prompt_frame, ip_default, ip_buffer>>

\* pt_prompt or input() raises EOFError or KeyboardInterrupt
prompt_interrupt ==
    /\ ip_pc \in {"active", "input"}
    /\ \E sig \in {"EOFError", "KeyboardInterrupt"} : ip_last' = sig
    /\ ip_ret' = PyNone
    /\ ip_pc' = "returned"
    /\ UNCHANGED <<prompt_frame, ip_default, ip_cancelled, ip_buffer>>

PromptNext ==
    \/ PromptRun
    \/ prompt_type
    \/ prompt_backspace
    \/ prompt_enter
    \/ prompt_cancel
    \/ prompt_interrupt

\* ------------------------------------------------------------ TabbedView
TabList(n) == [i \in 1..n |-> <<"label", "renderer">>]

\* str.lower() on the characters a line can hold
Lower(c) ==
    CASE c = "N" -> "n" [] c = "P" -> "p" [] c = "Q" -> "q" [] c = "H" -> "h"
      [] c = "L" -> "l" [] OTHER -> c
LowerStr(s) == [i \in 1..Len(s) |-> Lower(s[i])]

\* lines the user may type at the fallback view's "  > " prompt
TabLines ==
    { <<>>, <<" ">>, <<"q">>, <<"Q">>, <<"q", "u", "i", "t">>,
      <<"e", "x", "i", "t">>, <<"n">>, <<" ", "N", " ">>,
      <<"r", "i", "g", "h", "t">>, <<"l">>, <<"L">>, <<"p">>, <<"P">>,
      <<"l", "e", "f", "t">>, <<"h">>, <<"t", "a", "b">>, <<"x">>,
      <<"n", "n">> }

ExitWords == { <<"q">>, <<"q", "u", "i", "t">>, <<"e", "x", "i", "t">>, <<>> }
NextWords == { <<"n">>, <<"r", "i", "g", "h", "t">>, <<"l">> }
PrevWords == { <<"p">>, <<"l", "e", "f", "t">>, <<"h">> }

\* TabbedView.__init__
TabsInit ==
    /\ tabs \in {TabList(n) : n \in 1..MaxTabs}
    /\ current_tab = 0
    /\ tab_pc = "constructed"
    /\ tab_last = "none"
    /\ tab_input = <<>>
    /\ tab_before = 0

\* no view is open
TabsIdle ==
    /\ tabs = <<>>
    /\ current_tab = 0
    /\ tab_pc = "idle"
    /\ tab_last = "none"
    /\ tab_input = <<>>
    /\ tab_before = 0

\* run() up to the point where it waits for the user
TabsRun ==
    /\ tab_pc = "constructed"
    /\ tab_pc' = IF PROMPT_TOOLKIT_AVAILABLE THEN "active" ELSE "input"
    /\ UNCHANGED <<tab_frame, tabs, current_tab, tab_last, tab_input, tab_before>>

\* stops at the first tab instead of wrapping to the last
prev_tab_index_clamp(t) == Max(0, t - 1)
prev_tab_index(t) == (t - 1) % Len(tabs)

prev_tab ==
    /\ tab_pc = "active"
    /\ tab_before' = current_tab
    /\ \E key \in {"left", "h"} : tab_last' = key
    /\ current_tab' = prev_tab_index(current_tab)
    /\ UNCHANGED <<tab_frame, tabs, tab_pc, tab_input>>

next_tab_index(t) == (t + 1) % Len(tabs)

next_tab ==
    /\ tab_pc = "active"
    /\ tab_before' = current_tab
    /\ \E key \in {"right", "l", "tab"} : tab_last' = key
    /\ current_tab' = next_tab_index(current_tab)
    /\ UNCHANGED <<tab_frame, tabs, tab_pc, tab_input>>

exit_view ==
    /\ tab_pc = "active"
    /\ tab_before' = current_tab
    /\ \E key \in {"escape", "q"} : tab_last' = key
    /\ tab_pc' = "returned"
    /\ UNCHANGED <<tab_frame, tabs, current_tab, tab_input>>

\* one round of the loop of _fallback: what the typed line does
tabs_fallback_key(line) == LowerStr(Strip(line))

tabs_fallback ==
    /\ tab_pc = "input"
    /\ tab_before' = current_tab
    /\ \E line \in TabLines :
          LET key == tabs_fallback_key(line)
          IN /\ tab_input' = line
             /\ IF key \in ExitWords
                THEN tab_pc' = "returned" /\ current_tab' = current_tab
                ELSE IF key \in NextWords
                     THEN tab_pc' = tab_pc /\ current_tab' = next_tab_index(current_tab)
                     ELSE IF key \in PrevWords
                          THEN /\ tab_pc' = tab_pc
                               /\ current_tab' = prev_tab_index(current_tab)
                          ELSE tab_pc' = tab_pc /\ current_tab' = current_tab
    /\ tab_last' = "line"
    /\ UNCHANGED <<tab_frame, tabs>>

\* input() raises EOFError or KeyboardInterrupt: the loop breaks
tabs_fallback_interrupt ==
    /\ tab_pc = "input"
    /\ tab_before' = current_tab
    /\ \E sig \in {"EOFError", "KeyboardInterrupt"} : tab_last' = sig
    /\ tab_pc' = "returned"
    /\ UNCHANGED <<tab_frame, tabs, current_tab, tab_input>>

\* end-of-input or an interrupt while app.run() waits in the key-driven
\* view: run() has no handler, so what app.run() raises leaves run(); a
\* closed input raises EOFError, an interrupt is raised or ignored
tabs_key_interrupt ==
    /\ tab_pc = "active"
    /\ tab_before' = current_tab
    /\ \E sig \in {"EOFError", "KeyboardInterrupt"} :
          /\ tab_last' = sig
          /\ tab_pc' \in IF sig = "EOFError" THEN {"raised"} ELSE {"raised", "active"}
    /\ UNCHANGED <<tab_frame, tabs, current_tab, tab_input>>

TabsNext ==
    \/ TabsRun
    \/ tabs_key_interrupt
    \/ prev_tab
    \/ next_tab
    \/ exit_view
    \/ tabs_fallback
    \/ tabs_fallback_interrupt

\* ------------------------------------------------------- InteractiveMenu
\* Python's seq[i] is defined for -len <= i < len
IndexOK(i) == 0 - Len(items) <= i /\ i < Len(items)
ItemValue(i) == IF i >= 0 THEN items[i + 1][3] ELSE items[Len(items) + i + 1][3]

\* InteractiveMenu.__init__
MenuInit ==
    /\ items \in ItemLists
    /\ multi_select \in BOOLEAN
    /\ passed \in IF multi_select THEN SUBSET StrValues ELSE {{}}
    /\ selected = passed
    /\ cursor = 0
    /\ result = PyNone
    /\ cancelled = FALSE
    /\ menu_pc = "constructed"
    /\ menu_ret = PyNone
    /\ menu_exc = "none"
    /\ last_key = "none"
    /\ menu_input = <<>>
    /\ cursor_before = 0
    /\ selected_before = selected
    /\ key_before = "none"

\* no menu is open
MenuIdle ==
    /\ items = <<>>
    /\ multi_select = FALSE
    /\ passed = {}
    /\ selected = {}
    /\ cursor = 0
    /\ result = PyNone
    /\ cancelled = FALSE
    /\ menu_pc = "idle"
    /\ menu_ret = PyNone
    /\ menu_exc = "none"
    /\ last_key = "none"
    /\ menu_input = <<>>
    /\ cursor_before = 0
    /\ selected_before = selected
    /\ key_before = "none"

\* the listing loop of _fallback_menu evaluates `val in self.selected` for
\* every item, in both modes of the menu
ListingRaises == \E i \in 1..Len(items) : ~Hashable(items[i][3])

\* the state in which the event being handled found the menu
menu_event ==
    /\ cursor_before' = cursor
    /\ selected_before' = selected
    /\ key_before' = last_key

\* run() up to the point where it waits for the user
MenuRun ==
    /\ menu_pc = "constructed"
    /\ IF PROMPT_TOOLKIT_AVAILABLE
       THEN menu_pc' = "active" /\ menu_exc' = menu_exc
       ELSE IF ListingRaises
            THEN menu_pc' = "raised" /\ menu_exc' = "TypeError"
            ELSE menu_pc' = "input" /\ menu_exc' = menu_exc
    /\ UNCHANGED <<menu_frame, items, passed, multi_select, selected, cursor, result,
                   cancelled, menu_ret, last_key, menu_input,
                   cursor_before, selected_before, key_before>>

move_up_cursor(c) == Max(0, c - 1)

move_up ==
    /\ menu_pc = "active"
    /\ menu_event
    /\ \E key \in {"up", "k"} : last_key' = key
    /\ cursor' = move_up_cursor(cursor)
    /\ UNCHANGED <<menu_frame, items, passed, multi_select, selected, result,
                   cancelled, menu_pc, menu_ret, menu_exc, menu_input>>

\* wraps to the first item instead of stopping at the last
move_down_cursor_wrap(c) == IF c + 1 >= Len(items) THEN 0 ELSE c + 1
move_down_cursor(c) == Min(Len(items) - 1, c + 1)

move_down ==
    /\ menu_pc = "active"
    /\ menu_event
    /\ \E key \in {"down", "j"} : last_key' = key
    /\ cursor' = move_down_cursor(cursor)
    /\ UNCHANGED <<menu_frame, items, passed, multi_select, selected, result,
                   cancelled, menu_pc, menu_ret, menu_exc, menu_input>>

\* `if self.cancelled or not self.result: return None`
MenuReturnFalsy(c, r) ==
    IF c \/ (r.kind = "set" /\ r.v = {}) THEN PyNone ELSE r

\* the tail of run(): None if cancelled, else self.result
MenuReturn(c, r) == IF c THEN PyNone ELSE r

\* an exception raised inside a key handler: the event loop either reports
\* it and keeps running or lets it end run()
HandlerRaises(exc) ==
    /\ menu_exc' = exc
    /\ menu_pc' \in {"active", "raised"}

\* `self.items[0][2]`: ignores the cursor
select_result_first == IF multi_select THEN PySet(selected) ELSE ItemValue(0)
select_result == IF multi_select THEN PySet(selected) ELSE ItemValue(cursor)

select ==
    /\ menu_pc = "active"
    /\ menu_event
    /\ last_key' = "enter"
    /\ IF multi_select \/ IndexOK(cursor)
       THEN /\ result' = select_result
            /\ menu_pc' = "returned"
            /\ menu_ret' = MenuReturn(cancelled, result')
            /\ menu_exc' = menu_exc
       ELSE /\ HandlerRaises("IndexError")
            /\ UNCHANGED <<result, menu_ret>>
    /\ UNCHANGED <<menu_frame, items, passed, multi_select, selected, cursor,
                   cancelled, menu_input>>

\* adds, never discards
FlipAddOnly(sel, val) == sel \cup {val}
Flip(sel, val) == IF val \in sel THEN sel \ {val} ELSE sel \cup {val}

toggle ==
    /\ menu_pc = "active"
    /\ menu_event
    /\ last_key' = "space"
    /\ IF ~multi_select
       THEN UNCHANGED <<selected, menu_pc, menu_exc>>
       ELSE IF ~IndexOK(cursor)
            THEN HandlerRaises("IndexError") /\ selected' = selected
            ELSE IF ~Hashable(ItemValue(cursor))
                 THEN HandlerRaises("TypeError") /\ selected' = selected
                 ELSE /\ selected' = Flip(selected, ItemValue(cursor))
                      /\ UNCHANGED <<menu_pc, menu_exc>>
    /\ UNCHANGED <<menu_frame, items, passed, multi_select, cursor, result,
                   cancelled, menu_ret, menu_input>>

cancel ==
    /\ menu_pc = "active"
    /\ menu_event
    /\ \E key \in {"escape", "q"} : last_key' = key
    /\ cancelled' = TRUE
    /\ menu_pc' = "returned"
    /\ menu_ret' = MenuReturn(cancelled', result)
    /\ UNCHANGED <<menu_frame, items, passed, multi_select, selected, cursor,
                   result, menu_exc, menu_input>>

\* the multi-select loop of _fallback_menu over the comma-separated pieces
RECURSIVE fallback_toggles(_, _)
fallback_toggles(sel, pieces) ==
    IF pieces = <<>> THEN sel
    ELSE LET n == PyInt(Strip(Head(pieces)))
             idx == n.val - 1
         IN fallback_toggles(
                IF n.ok /\ 0 <= idx /\ idx < Len(items)
                THEN Flip(sel, ItemValue(idx)) ELSE sel,
                Tail(pieces))

\* the single-select branch of _fallback_menu for a non-empty stripped line
fallback_choice(inp) ==
    LET n == PyInt(inp)
        idx == n.val - 1
    IN IF n.ok /\ 0 <= idx /\ idx < Len(items) THEN ItemValue(idx) ELSE PyNone

\* _fallback_menu once input() has returned a line
fallback_menu ==
    /\ menu_pc = "input"
    /\ menu_event
    /\ \E line \in InputLines :
          LET inp == Strip(line)
          IN /\ menu_input' = line
             /\ IF multi_select
                THEN /\ selected' = IF inp # <<>>
                                    THEN fallback_toggles(selected, Split(inp, ","))
                                    ELSE selected
                     /\ menu_ret' = PySet(selected')
                     /\ menu_pc' = "returned"
                     /\ menu_exc' = menu_exc
                ELSE /\ selected' = selected
                     /\ IF inp = <<>>
                        THEN IF IndexOK(0)
                             THEN /\ menu_ret' = ItemValue(0)
                                  /\ menu_pc' = "returned"
                                  /\ menu_exc' = menu_exc
                             ELSE /\ menu_ret' = menu_ret
                                  /\ menu_pc' = "raised"
                                  /\ menu_exc' = "IndexError"
                        ELSE /\ menu_ret' = fallback_choice(inp)
                             /\ menu_pc' = "returned"
                             /\ menu_exc' = menu_exc
    /\ last_key' = "line"
    /\ UNCHANGED <<menu_frame, items, passed, multi_select, cursor, result, cancelled>>

\* _fallback_menu when input() raises EOFError or KeyboardInterrupt
fallback_menu_interrupt ==
    /\ menu_pc = "input"
    /\ menu_event
    /\ \E sig \in {"EOFError", "KeyboardInterrupt"} : last_key' = sig
    /\ menu_ret' = PyNone
    /\ menu_pc' = "returned"
    /\ UNCHANGED <<menu_frame, items, passed, multi_select, selected, cursor, result,
                   cancelled, menu_exc, menu_input>>

\* what app.run() does with the signal when no handler of the menu takes
\* it: a closed input ends it with EOFError, an interrupt ends it with
\* KeyboardInterrupt or is ignored
app_run_outcomes(sig) == IF sig = "EOFError" THEN {"raised"} ELSE {"raised", "active"}

\* end-of-input or an interrupt while app.run() waits in the key-driven
\* menu: run() has no try around app.run()
menu_key_interrupt ==
    /\ menu_pc = "active"
    /\ menu_event
    /\ \E sig \in {"EOFError", "KeyboardInterrupt"} :
          /\ last_key' = sig
          /\ menu_pc' \in app_run_outcomes(sig)
          /\ menu_exc' = IF menu_pc' = "raised" THEN sig ELSE menu_exc
    /\ UNCHANGED <<menu_frame, items, passed, multi_select, selected, cursor, result,
                   cancelled, menu_ret, menu_input>>

MenuNext ==
    \/ MenuRun
    \/ menu_key_interrupt
    \/ move_up
    \/ move_down
    \/ select
    \/ toggle
    \/ cancel
    \/ fallback_menu
    \/ fallback_menu_interrupt

\* ------------------------------------------------------ stored documents
MaxClock == 1800
MaxDay == 3
MaxRows == 2
MaxNotifications == 1

\* a file that does not exist
Absent == [kind |-> "absent"]

PyBool(b) == [kind |-> "bool", v |-> b]
PyNum(n) == [kind |-> "int", v |-> n]
PyList(s) == [kind |-> "list", v |-> s]
PyTuple(s) == [kind |-> "tuple", v |-> s]
\* the str that date.isoformat() / datetime.isoformat() gives for t, and
\* the instant that fromisoformat() reads back from it
isoformat(t) == [kind |-> "isoformat", v |-> t]
fromisoformat(s) == s.v
\* the str an f-string builds from its pieces
fstring(pieces) == [kind |-> "fstring", v |-> pieces]

\* bool(val)
Truthy(val) ==
    CASE val.kind = "None" -> FALSE
      [] val.kind = "bool" -> val.v
      [] val.kind = "int" -> val.v # 0
      [] val.kind = "str" -> val.v # ""
      [] val.kind \in {"list", "tuple"} -> Len(val.v) # 0
      [] val.kind = "dict" -> DOMAIN val.v # {}
      [] val.kind = "set" -> val.v # {}
      [] OTHER -> TRUE

\* d.get(k, default) and k in d, for a dict d
get(d, k, default) == IF k \in DOMAIN d.v THEN d.v[k] ELSE default
has(d, k) == k \in DOMAIN d.v

\* d[k] = val
setitem(d, k, val) ==
    PyDict([x \in DOMAIN d.v \cup {k} |-> IF x = k THEN val ELSE d.v[x]])

\* json.dump: the JSON text written for a Python object, as its parse tree
RECURSIVE json_dumps(_)
json_dumps(val) ==
    CASE val.kind = "None" -> [j |-> "null"]
      [] val.kind = "bool" -> [j |-> IF val.v THEN "true" ELSE "false"]
      [] val.kind = "int" -> [j |-> "number", v |-> val.v]
      [] val.kind \in {"str", "isoformat", "fstring"} -> [j |-> "string", v |-> val]
      [] val.kind \in {"list", "tuple"} ->
            [j |-> "array", v |-> [i \in 1..Len(val.v) |-> json_dumps(val.v[i])]]
      [] val.kind = "dict" ->
            [j |-> "object", v |-> [k \in DOMAIN val.v |-> json_dumps(val.v[k])]]

\* json.load: the Python object built from a JSON text
RECURSIVE json_loads(_)
json_loads(doc) ==
    CASE doc.j = "null" -> PyNone
      [] doc.j = "true" -> PyBool(TRUE)
      [] doc.j = "false" -> PyBool(FALSE)
      [] doc.j = "number" -> PyNum(doc.v)
      [] doc.j = "string" -> doc.v
      [] doc.j = "array" -> PyList([i \in 1..Len(doc.v) |-> json_loads(doc.v[i])])
      [] doc.j = "object" -> PyDict([k \in DOMAIN doc.v |-> json_loads(doc.v[k])])

\* ---------------------------------------------------------- configuration
DEFAULT_CONFIG ==
    PyDict([enabled |-> PyBool(TRUE),
            cooldown_minutes |-> PyNum(30),
            theme |-> PyStr("fire"),
            categories |-> PyDict([legs |-> PyBool(TRUE), upper |-> PyBool(TRUE),
                                   cardio |-> PyBool(TRUE), core |-> PyBool(TRUE),
                                   mobility |-> PyBool(TRUE), full |-> PyBool(TRUE)]),
            intensity_preference |-> PyStr("mixed"),
            equipment |-> PyList(<<PyStr("none")>>),
            weekly_pattern |-> PyStr("freestyle"),
            custom_exercises |-> PyList(<<>>),
            custom_routines |-> PyList(<<>>),
            quiet_hours |-> PyDict([enabled |-> PyBool(FALSE), start |-> PyStr("22:00"),
                                    end |-> PyStr("08:00")])])

ConfigKeys == DOMAIN DEFAULT_CONFIG.v

\* an exercise definition a user has added
CustomExercise ==
    PyDict([name |-> PyStr("burpees"), count |-> PyNum(5), category |-> PyStr("full"),
            intensity |-> PyStr("high"), custom |-> PyBool(TRUE)])

\* values a configuration document can hold under each key
ConfigValues(k) ==
    CASE k = "enabled" -> {PyBool(FALSE), PyBool(TRUE)}
      [] k = "cooldown_minutes" -> {PyNum(15)}
      [] k = "theme" -> {PyStr("ocean")}
      [] k = "categories" -> {PyDict([legs |-> PyBool(FALSE)])}
      [] k = "intensity_preference" -> {PyStr("light")}
      [] k = "equipment" -> {PyList(<<PyStr("dumbbells")>>)}
      [] k = "weekly_pattern" -> {PyStr("ppl")}
      [] k = "custom_exercises" -> {PyList(<<CustomExercise>>)}
      [] k = "custom_routines" -> {PyList(<<>>)}
      [] k = "quiet_hours" -> {PyDict([enabled |-> PyBool(TRUE)])}

\* the dicts over any subset of the keys K, each key with one of its values
RECURSIVE DictsOver(_)
DictsOver(K) ==
    IF K = {} THEN { [x \in {} |-> PyNone] }
    ELSE LET k == CHOOSE x \in K : TRUE
             rest == DictsOver(K \ {k})
         IN rest \cup { [x \in DOMAIN f \cup {k} |-> IF x = k THEN val ELSE f[x]] :
                           f \in rest, val \in ConfigValues(k) }

\* the configuration documents with any set of top-level keys
ConfigDocs == { PyDict(f) : f \in DictsOver(ConfigKeys) }

\* d.update(s) on a copy of d, with the keys of d winning instead
dict_update_keep(d, s) ==
    PyDict([k \in DOMAIN d.v \cup DOMAIN s.v |-> IF k \in DOMAIN d.v THEN d.v[k] ELSE s.v[k]])
\* d.update(s) on a copy of d
dict_update(d, s) ==
    PyDict([k \in DOMAIN d.v \cup DOMAIN s.v |-> IF k \in DOMAIN s.v THEN s.v[k] ELSE d.v[k]])

\* load_config(): the dict it returns for the present CONFIG_FILE
load_config_result ==
    IF config_file # Absent THEN dict_update(DEFAULT_CONFIG, json_loads(config_file))
    ELSE DEFAULT_CONFIG

\* the widgets and the session, which no command touches
store_frame == <<PROMPT_TOOLKIT_AVAILABLE, menu_vars, prompt_vars, tab_vars, app_vars>>

\* what a finished call leaves in the history variables
Ran(name, arg, out, exc, ret, before) ==
    /\ cmd' = name
    /\ cmd_arg' = arg
    /\ cmd_out' = out
    /\ cmd_exc' = exc
    /\ cmd_ret' = ret
    /\ pre' = before

\* save_config(config), for the document the caller holds
save_config ==
    \E c \in {pre.config} :
        /\ config_file' = json_dumps(c)
        /\ Ran("save_config", c, <<>>, "none", PyNone, [pre EXCEPT !.after = cmd])
        /\ UNCHANGED <<store_frame, now, today, utc_today, EXERCISES, day_file, pending_file,
                       last_suggested_file, tables_exist, exercises_rows, routine_rows,
                       log_file, notifications, latest, suggested>>

\* load_config()
load_config ==
    /\ Ran("load_config", PyNone, <<>>, "none", load_config_result,
           [pre EXCEPT !.after = cmd])
    /\ UNCHANGED <<store_frame, store_vars, latest, suggested>>

ConfigNext == save_config \/ load_config

\* ------------------------------------------------------------ hook commands
TickSeconds == 900

\* exercise definitions of the bundled catalogue
Pushups ==
    PyDict([name |-> PyStr("pushups"), count |-> PyNum(10), category |-> PyStr("upper"),
            intensity |-> PyStr("moderate")])
Plank ==
    PyDict([name |-> PyStr("plank"), count |-> PyNum(30), unit |-> PyStr("seconds"),
            category |-> PyStr("core"), intensity |-> PyStr("light"),
            equipment |-> PyList(<<PyStr("mat")>>)])
BundledCatalogues == { <<>>, <<Pushups, Plank>> }
\* the same, and a catalogue whose every exercise needs equipment
HookCatalogues == BundledCatalogues \cup { <<Plank>> }

\* the --task argument: not given, empty, or a description
TaskArgs == { PyNone, PyStr(""), PyStr("writing tests") }

\* configuration documents the hook commands run with
HookConfigs ==
    { PyDict([enabled |-> PyBool(FALSE)]),
      PyDict([cooldown_minutes |-> PyNum(15), equipment |-> PyList(<<PyStr("mat")>>)]),
      PyDict([custom_exercises |-> PyList(<<CustomExercise>>)]) }

\* the stored documents, as a command finds them
Snapshot ==
    [pending |-> pending_file, last_suggested |-> last_suggested_file,
     rows |-> exercises_rows, routines |-> routine_rows, log |-> log_file,
     notifications |-> notifications, config |-> config_file, day |-> day_file,
     tables |-> tables_exist, now |-> now, today |-> today, utc_today |-> utc_today]

\* the UTC dates that the local date d overlaps, over all time zones
UtcDates(d) == {d - 1, d, d + 1}

\* the clock moves between two commands
Tick ==
    /\ now + TickSeconds <= MaxClock
    /\ now' = now + TickSeconds
    /\ UNCHANGED <<store_frame, today, utc_today, EXERCISES, config_file, day_file, pending_file,
                   last_suggested_file, tables_exist, exercises_rows, routine_rows,
                   log_file, notifications, cmd_vars>>

\* init_db(): CREATE TABLE IF NOT EXISTS for both tables
init_db ==
    /\ tables_exist' = TRUE
    /\ Ran("init_db", PyNone, <<>>, "none", PyNone, Snapshot)
    /\ UNCHANGED <<store_frame, now, today, utc_today, EXERCISES, config_file, day_file, pending_file,
                   last_suggested_file, exercises_rows, routine_rows, log_file,
                   notifications, latest, suggested>>

\* cooldown * 60, and the same without the conversion to seconds
cooldown_seconds_raw(cooldown) == cooldown
cooldown_seconds(cooldown) == cooldown * 60

\* the test of lines 1927-1930: a suggestion was made less than cooldown ago
in_cooldown(config) ==
    /\ last_suggested_file # Absent
    /\ now - fromisoformat(last_suggested_file)
          < cooldown_seconds(get(config, "cooldown_minutes", PyNum(30)).v)

\* set(config.get("equipment", ["none"])) with "none" added
user_equipment(config) ==
    LET equipment == get(config, "equipment", PyList(<<PyStr("none")>>)).v
    IN { equipment[i] : i \in 1..Len(equipment) } \cup { PyStr("none") }

\* passes every exercise that lists equipment, whatever the user owns
equipment_ok_listed(e, config) ==
    \/ ~Truthy(get(e, "equipment", PyNone))
    \/ Len(get(e, "equipment", PyList(<<>>)).v) > 0
\* the filter of lines 1935-1936
equipment_ok(e, config) ==
    \/ ~Truthy(get(e, "equipment", PyNone))
    \/ LET needs == get(e, "equipment", PyList(<<>>)).v
       IN \E i \in 1..Len(needs) : needs[i] \in user_equipment(config)

\* the exercises random.choice draws from
suggestable(config) ==
    SelectSeq(EXERCISES \o get(config, "custom_exercises", PyList(<<>>)).v,
              LAMBDA e : equipment_ok(e, config))

\* the line printed for an exercise
suggestion_text(exercise) ==
    LET count == exercise.v["count"]
        unit == get(exercise, "unit", PyStr("reps"))
        name == exercise.v["name"]
    IN IF unit # PyStr("reps") THEN fstring(<<count, " ", unit, " ", name>>)
       ELSE fstring(<<count, " ", name>>)

\* the same document with the task context left at its default
pending_doc_no_task(exercise, task) ==
    PyDict([type |-> PyStr("exercise"), exercise |-> suggestion_text(exercise),
            data |-> exercise, task_description |-> PyStr("task"),
            suggested_at |-> isoformat(now)])
\* the document cmd_hook_suggest writes
pending_doc(exercise, task) ==
    PyDict([type |-> PyStr("exercise"), exercise |-> suggestion_text(exercise),
            data |-> exercise,
            task_description |-> IF Truthy(task) THEN task ELSE PyStr("task"),
            suggested_at |-> isoformat(now)])

\* open(PENDING_FILE, "w") and json.dump, and a writer that keeps a document
\* that is already there
write_pending_keep(doc) == IF pending_file # Absent THEN pending_file ELSE json_dumps(doc)
write_pending(doc) == json_dumps(doc)

\* cmd_hook_suggest(args); the clock reads of one call are one instant
cmd_hook_suggest ==
    \E task \in TaskArgs :
        LET config == load_config_result
            exercises == suggestable(config)
        IN IF \/ ~Truthy(get(config, "enabled", PyBool(TRUE)))
              \/ in_cooldown(config)
              \/ Len(exercises) = 0
           THEN /\ Ran("suggest", task, <<>>, "none", PyNone, Snapshot)
                /\ UNCHANGED <<store_frame, store_vars, latest, suggested>>
           ELSE \E i \in 1..Len(exercises) :
                  LET doc == pending_doc(exercises[i], task)
                  IN /\ pending_file' = write_pending(doc)
                     /\ last_suggested_file' = isoformat(now)
                     /\ latest' = doc
                     /\ suggested' = suggested + 1
                     /\ Ran("suggest", task, <<suggestion_text(exercises[i])>>, "none",
                            PyNone, Snapshot)
                     /\ UNCHANGED <<store_frame, now, today, utc_today, EXERCISES, config_file,
                                    day_file, tables_exist, exercises_rows, routine_rows,
                                    log_file, notifications>>

\* sum(r['count'] for r in exercise_rows) of get_stats_today()
RECURSIVE total_reps(_, _)
total_reps(rows, day) ==
    IF rows = <<>> THEN 0
    ELSE (IF Head(rows).completed /\ Head(rows).timestamp = day
          THEN Head(rows).count.v ELSE 0) + total_reps(Tail(rows), day)

\* the row log_exercise_db inserts: CURRENT_TIMESTAMP is UTC, so the date of
\* its timestamp is the UTC date; logged_on is the local date of the insert,
\* which no column holds
exercise_row(name, count, unit, category, intensity, task_desc) ==
    [name |-> name, count |-> count, unit |-> unit, category |-> category,
     intensity |-> intensity, task_description |-> task_desc, completed |-> TRUE,
     timestamp |-> utc_today, logged_on |-> today]

\* _log_to_markdown: the lines of LOG_FILE afterwards
log_to_markdown(text, category, intensity) ==
    LET header == [line |-> "header", date |-> today]
        started == IF log_file = Absent THEN <<[line |-> "title"]>> ELSE log_file.v
        dated == IF \E i \in 1..Len(started) : started[i] = header THEN started
                 ELSE Append(started, header)
    IN PyList(Append(dated, [line |-> "entry", time |-> now, text |-> text,
                             category |-> category, intensity |-> intensity]))

\* a log-skip that also records the pending exercise
cmd_hook_log_skip_recording ==
    /\ pending_file' = Absent
    /\ latest' = Absent
    /\ suggested' = suggested
    /\ exercises_rows' =
          IF pending_file # Absent /\ Len(exercises_rows) < MaxRows
          THEN Append(exercises_rows,
                      exercise_row(PyStr("unknown"), PyNum(0), PyStr("reps"),
                                   PyStr("general"), PyStr("moderate"), PyStr("hook")))
          ELSE exercises_rows
    /\ Ran("log-skip", PyNone, <<>>, "none", PyNone, Snapshot)
    /\ UNCHANGED <<store_frame, now, today, utc_today, EXERCISES, config_file, day_file,
                   last_suggested_file, tables_exist, routine_rows, log_file,
                   notifications>>

\* cmd_hook_log_skip(args)
cmd_hook_log_skip ==
    /\ pending_file' = Absent
    /\ latest' = Absent
    /\ suggested' = suggested
    /\ Ran("log-skip", PyNone, <<>>, "none", PyNone, Snapshot)
    /\ UNCHANGED <<store_frame, now, today, utc_today, EXERCISES, config_file, day_file,
                   last_suggested_file, tables_exist, exercises_rows, routine_rows,
                   log_file, notifications>>

\* send_notification(title, subtitle, message): the notifier (terminal-notifier
\* run by subprocess.run without check, or osascript run by os.system) shows
\* the notification or fails with a non-zero exit status, which neither
\* call turns into an exception. The call ends with exc and leaves the
\* notifications handed to the OS. The first operator hands nothing to the
\* OS, the second is a call that checks the exit status.
send_notification_none(title, subtitle, message) ==
    { [exc |-> "none", notifications |-> notifications] }
send_notification_checked(title, subtitle, message) ==
    { [exc |-> IF shown THEN "none" ELSE "CalledProcessError",
       notifications |-> Append(notifications,
                                [title |-> title, subtitle |-> subtitle,
                                 message |-> message, shown |-> shown])] :
      shown \in BOOLEAN }
send_notification(title, subtitle, message) ==
    { [exc |-> "none",
       notifications |-> Append(notifications,
                                [title |-> title, subtitle |-> subtitle,
                                 message |-> message, shown |-> shown])] :
      shown \in BOOLEAN }

\* cmd_hook_log_complete(args). INSERT and SELECT raise
\* sqlite3.OperationalError (no such table) when init_db() never ran on
\* this storage; the command does not call init_db().
\* a log-complete that does not test for the pending document and records
\* the defaults of its .get calls when there is none
cmd_hook_log_complete_unguarded ==
    /\ tables_exist
    /\ Len(exercises_rows) < MaxRows
    /\ exercises_rows' =
          Append(exercises_rows,
                 exercise_row(PyStr("unknown"), PyNum(0), PyStr("reps"), PyStr("general"),
                              PyStr("moderate"), PyStr("hook")))
    /\ pending_file' = Absent
    /\ latest' = Absent
    /\ suggested' = suggested
    /\ Ran("log-complete", PyNone, <<>>, "none", PyNone, Snapshot)
    /\ UNCHANGED <<store_frame, now, today, utc_today, EXERCISES, config_file, day_file,
                   last_suggested_file, tables_exist, routine_rows, log_file,
                   notifications>>
cmd_hook_log_complete ==
    /\ pending_file # Absent /\ tables_exist => Len(exercises_rows) < MaxRows
    /\ IF pending_file = Absent
       THEN /\ Ran("log-complete", PyNone, <<>>, "none", PyNone, Snapshot)
            /\ UNCHANGED <<store_frame, store_vars, latest, suggested>>
       ELSE LET pending == json_loads(pending_file)
                data == get(pending, "data", PyDict(<<>>))
                is_exercise == get(pending, "type", PyNone) = PyStr("exercise")
                name == get(data, "name", PyStr("unknown"))
                count == get(data, "count", PyNum(0))
                unit == get(data, "unit", PyStr("reps"))
                category == get(data, "category", PyStr("general"))
                intensity == get(data, "intensity", PyStr("moderate"))
                rows == IF is_exercise
                        THEN Append(exercises_rows,
                                    exercise_row(name, count, unit, category, intensity,
                                                 get(pending, "task_description",
                                                     PyStr("hook"))))
                        ELSE exercises_rows
                text == fstring(<<count, " ", IF unit # PyStr("reps") THEN unit ELSE PyStr(""),
                                  " ", name>>)
            IN IF ~tables_exist
               THEN /\ Ran("log-complete", PyNone, <<>>, "OperationalError", PyNone,
                           Snapshot)
                    /\ UNCHANGED <<store_frame, store_vars, latest, suggested>>
               ELSE \E sent \in send_notification("Swole Code", "Logged!",
                                   fstring(<<"Today: ", PyNum(total_reps(rows, today)),
                                             " reps">>)) :
                    /\ exercises_rows' = rows
                    /\ log_file' = IF is_exercise
                                   THEN log_to_markdown(text, category, intensity)
                                   ELSE log_file
                    /\ notifications' = sent.notifications
                    /\ pending_file' = IF sent.exc = "none" THEN Absent ELSE pending_file
                    /\ latest' = IF sent.exc = "none" THEN Absent ELSE latest
                    /\ suggested' = suggested
                    /\ Ran("log-complete", PyNone, <<>>, sent.exc, PyNone, Snapshot)
                    /\ UNCHANGED <<store_frame, now, today, utc_today, EXERCISES, config_file,
                                   day_file, last_suggested_file, tables_exist,
                                   routine_rows>>

\* WHERE completed = 1 AND date(timestamp) = ?, with the local date
\* date.today().isoformat() for the parameter
completed_today(rows) ==
    SelectSeq(rows, LAMBDA r : r.completed /\ isoformat(r.timestamp) = isoformat(today))

\* SUM(count)
RECURSIVE sum_count(_)
sum_count(rows) ==
    IF rows = <<>> THEN 0 ELSE Head(rows).count.v + sum_count(Tail(rows))

\* the dict built from SELECT category, COUNT(*), SUM(count) ... GROUP BY category
category_breakdown(rows) ==
    PyDict([c \in { rows[i].category.v : i \in 1..Len(rows) } |->
              LET of_c == SelectSeq(rows, LAMBDA r : r.category.v = c)
              IN PyDict([count |-> PyNum(Len(of_c)), reps |-> PyNum(sum_count(of_c))])])

\* SUM(duration_minutes) over routine rows, NULL counting as nothing
RECURSIVE sum_minutes(_)
sum_minutes(rows) ==
    IF rows = <<>> THEN 0
    ELSE (IF Head(rows).duration_minutes.kind = "int" THEN Head(rows).duration_minutes.v
          ELSE 0) + sum_minutes(Tail(rows))

\* cmd_stats_json(): init_db(), then the three queries
cmd_stats_json ==
    LET exercises == completed_today(exercises_rows)
        routines == SelectSeq(routine_rows,
                              LAMBDA r : isoformat(r.timestamp) = isoformat(today))
        stats == PyDict([date |-> isoformat(today),
                         exercises |-> PyNum(Len(exercises)),
                         reps |-> PyNum(sum_count(exercises)),
                         routines |-> PyNum(Len(routines)),
                         routine_minutes |-> PyNum(sum_minutes(routines)),
                         categories |-> category_breakdown(exercises)])
    IN /\ tables_exist' = TRUE
       /\ Ran("stats", PyNone, <<stats>>, "none", PyNone, Snapshot)
       /\ UNCHANGED <<store_frame, now, today, utc_today, EXERCISES, config_file, day_file,
                      pending_file, last_suggested_file, exercises_rows, routine_rows,
                      log_file, notifications, latest, suggested>>

HooksNext ==
    \/ cmd_hook_suggest
    \/ cmd_hook_log_complete
    \/ cmd_hook_log_skip
    \/ cmd_stats_json
    \/ init_db
    \/ Tick

\* ---------------------------------------------------------------- day state
DEFAULT_DAY_STATE ==
    PyDict([date |-> PyNone,
            morning |-> PyDict([status |-> PyStr("pending"), completed_at |-> PyNone,
                                routine_used |-> PyNone]),
            workout_queue |-> PyDict([queued |-> PyBool(FALSE), routine_id |-> PyNone,
                                      routine_name |-> PyNone, duration_minutes |-> PyNone,
                                      trigger |-> PyNone, trigger_description |-> PyNone,
                                      queued_at |-> PyNone, triggered_at |-> PyNone]),
            deep_work_start |-> PyNone])

\* reset_day_if_needed(state): the state it builds, and one that carries
\* the morning record of the old state over
reset_day_state_keep(state) ==
    setitem(setitem(DEFAULT_DAY_STATE, "date", isoformat(today)), "morning",
            get(state, "morning", PyNone))
\* a reset that carries the trigger time of the old queue over
reset_day_state_triggered(state) ==
    LET fresh == setitem(DEFAULT_DAY_STATE, "date", isoformat(today))
        old == get(state, "workout_queue", fresh.v["workout_queue"])
    IN setitem(fresh, "workout_queue",
               setitem(fresh.v["workout_queue"], "triggered_at",
                       get(old, "triggered_at", PyNone)))
reset_day_state(state) ==
    PyDict([date |-> isoformat(today),
            morning |-> PyDict([status |-> PyStr("pending"), completed_at |-> PyNone,
                                routine_used |-> PyNone]),
            workout_queue |-> PyDict([queued |-> PyBool(FALSE), routine_id |-> PyNone,
                                      routine_name |-> PyNone, duration_minutes |-> PyNone,
                                      trigger |-> PyNone, trigger_description |-> PyNone,
                                      queued_at |-> PyNone, triggered_at |-> PyNone]),
            deep_work_start |-> PyNone])

\* load_day_state(): the state it returns and DAY_FILE as it leaves it.
\* Each command is one process, so the nested dicts that
\* DEFAULT_DAY_STATE.copy() shares with the defaults are never seen again.
load_day_state ==
    IF day_file # Absent
    THEN LET state == json_loads(day_file)
         IN IF get(state, "date", PyNone) # isoformat(today)
            THEN [state |-> reset_day_state(state),
                  file |-> json_dumps(reset_day_state(state))]
            ELSE [state |-> state, file |-> day_file]
    ELSE LET state == setitem(DEFAULT_DAY_STATE, "date", isoformat(today))
         IN [state |-> state, file |-> json_dumps(state)]

\* the "sample_routines" of the bundled routines document, and str.lower
\* on the names and ids used here
sample_routines ==
    <<PyDict([id |-> PyStr("stretch-10"), name |-> PyStr("Morning Stretch"),
              duration_minutes |-> PyNum(10)])>>
lower(s) ==
    CASE s = "Morning Stretch" -> "morning stretch"
      [] s = "MORNING STRETCH" -> "morning stretch"
      [] s = "Stretch-10" -> "stretch-10"
      [] s \in {"True", "TRUE"} -> "true"
      [] s \in {"False", "FALSE"} -> "false"
      [] OTHER -> s

RoutineArgs == { PyStr("stretch-10"), PyStr("MORNING STRETCH"), PyStr("yoga") }
TriggerTypes == { PyStr("big_task") }
Descriptions == { PyNone, PyStr("deploy") }

\* everything but DAY_FILE and the history variables
day_frame ==
    <<store_frame, now, today, utc_today, EXERCISES, config_file, pending_file, last_suggested_file,
      tables_exist, exercises_rows, routine_rows, log_file, latest, suggested>>

\* midnight passes
NextDay ==
    /\ today < MaxDay
    /\ today' = today + 1
    /\ utc_today' = utc_today + 1
    /\ UNCHANGED <<store_frame, now, EXERCISES, config_file, day_file, pending_file,
                   last_suggested_file, tables_exist, exercises_rows, routine_rows,
                   log_file, notifications, cmd_vars>>

\* the other sections of the bundled routines document
equipment_types ==
    <<PyDict([id |-> PyStr("none"), name |-> PyStr("None"), description |-> PyStr("")]),
      PyDict([id |-> PyStr("mat"), name |-> PyStr("Mat"), description |-> PyStr("")])>>
weekly_patterns ==
    <<PyDict([id |-> PyStr("ppl"), name |-> PyStr("Push Pull Legs"),
              description |-> PyStr("")])>>
routine_types ==
    <<PyDict([id |-> PyStr("yoga"), name |-> PyStr("Yoga"), description |-> PyStr("")])>>

\* get_day_of_week(): the lower-case name of the weekday of the local date
weekdays ==
    <<"monday", "tuesday", "wednesday", "thursday", "friday", "saturday", "sunday">>
get_day_of_week == weekdays[(today % 7) + 1]

\* get_todays_focus(config): the schedule entry of today in the first
\* pattern that has the configured id and a schedule, else None
get_todays_focus(config) ==
    LET pattern_id == get(config, "weekly_pattern", PyStr("freestyle"))
        found == SelectSeq(weekly_patterns,
                           LAMBDA pattern : /\ pattern.v["id"] = pattern_id
                                            /\ Truthy(get(pattern, "schedule", PyNone)))
    IN IF found = <<>> THEN PyNone
       ELSE get(Head(found).v["schedule"], get_day_of_week, PyList(<<>>))

\* cmd_day()
cmd_day ==
    /\ day_file' = load_day_state.file
    /\ Ran("day", PyNone, <<load_day_state.state>>, "none", load_day_state.state, Snapshot)
    /\ UNCHANGED <<day_frame, notifications>>

\* the command lines of `morning`: the three flags and --routine
MorningArgs ==
    { [status |-> FALSE, complete |-> FALSE, skip |-> FALSE, routine |-> PyNone],
      [status |-> TRUE, complete |-> FALSE, skip |-> FALSE, routine |-> PyNone],
      [status |-> FALSE, complete |-> TRUE, skip |-> FALSE, routine |-> PyNone],
      [status |-> FALSE, complete |-> TRUE, skip |-> FALSE,
       routine |-> PyStr("Morning Stretch")],
      [status |-> FALSE, complete |-> FALSE, skip |-> TRUE, routine |-> PyNone],
      [status |-> TRUE, complete |-> TRUE, skip |-> TRUE, routine |-> PyNone] }

\* cmd_morning_status(), run for the command line args
cmd_morning_status(args) ==
    LET state == load_day_state.state
        morning == get(state, "morning", PyDict(<<>>))
        config == load_config_result
        focus == get_todays_focus(config)
        output == PyDict([date |-> get(state, "date", PyNone),
                          status |-> get(morning, "status", PyStr("pending")),
                          completed_at |-> get(morning, "completed_at", PyNone),
                          routine_used |-> get(morning, "routine_used", PyNone),
                          todays_focus |-> focus,
                          day_of_week |-> PyStr(get_day_of_week)])
    IN /\ day_file' = load_day_state.file
       /\ Ran("morning --status", args, <<output>>, "none", state, Snapshot)
       /\ UNCHANGED <<day_frame, notifications>>

\* cmd_morning_complete(routine_name), run for the command line args
cmd_morning_complete(args) ==
    LET routine_name == args.routine
        state == load_day_state.state
        morning == setitem(setitem(state.v["morning"], "status", PyStr("completed")),
                           "completed_at", isoformat(now))
        named == IF Truthy(routine_name)
                 THEN setitem(morning, "routine_used", routine_name) ELSE morning
    IN /\ day_file' = json_dumps(setitem(state, "morning", named))
       /\ Ran("morning --complete", args,
              <<PyDict([success |-> PyBool(TRUE), status |-> PyStr("completed"),
                        routine |-> routine_name])>>,
              "none", state, Snapshot)
       /\ UNCHANGED <<day_frame, notifications>>

\* cmd_morning_skip(), run for the command line args
cmd_morning_skip(args) ==
    LET state == load_day_state.state
        morning == setitem(state.v["morning"], "status", PyStr("skipped"))
    IN /\ day_file' = json_dumps(setitem(state, "morning", morning))
       /\ Ran("morning --skip", args,
              <<PyDict([success |-> PyBool(TRUE), status |-> PyStr("skipped")])>>,
              "none", state, Snapshot)
       /\ UNCHANGED <<day_frame, notifications>>

\* cmd_morning(args): the handler the flags select
morning_handler_skipping(args) ==
    IF args.status THEN "status"
    ELSE IF args.complete THEN "complete"
    ELSE "skip"
morning_handler(args) ==
    IF args.status THEN "status"
    ELSE IF args.complete THEN "complete"
    ELSE IF args.skip THEN "skip"
    ELSE "status"
cmd_morning ==
    \E args \in MorningArgs :
        CASE morning_handler(args) = "status" -> cmd_morning_status(args)
          [] morning_handler(args) = "complete" -> cmd_morning_complete(args)
          [] morning_handler(args) = "skip" -> cmd_morning_skip(args)

\* the routines cmd_queue_add searches, and the first that matches
all_routines ==
    sample_routines \o get(load_config_result, "custom_routines", PyList(<<>>)).v
routine_matches(r, routine_id) ==
    \/ get(r, "id", PyNone) = routine_id
    \/ lower(get(r, "name", PyStr("")).v) = lower(routine_id.v)
\* the first routine of the list, whatever was asked for
find_routine_first(routine_id) ==
    IF all_routines = <<>> THEN PyNone ELSE Head(all_routines)
find_routine(routine_id) ==
    LET found == SelectSeq(all_routines, LAMBDA r : routine_matches(r, routine_id))
    IN IF found = <<>> THEN PyNone ELSE Head(found)

\* cmd_queue_add(routine_id, trigger, description)
cmd_queue_add ==
    \E routine_id \in RoutineArgs, trigger \in TriggerTypes, description \in Descriptions :
        LET routine == find_routine(routine_id)
            state == load_day_state.state
            queue == PyDict([queued |-> PyBool(TRUE),
                             routine_id |-> get(routine, "id", routine_id),
                             routine_name |-> get(routine, "name", PyNone),
                             duration_minutes |-> get(routine, "duration_minutes", PyNone),
                             trigger |-> trigger,
                             trigger_description |-> description,
                             queued_at |-> isoformat(now),
                             triggered_at |-> PyNone])
        IN IF ~Truthy(routine)
           THEN /\ Ran("queue", routine_id,
                       <<PyDict([success |-> PyBool(FALSE),
                                 error |-> fstring(<<"Routine not found: ", routine_id>>)])>>,
                       "none", PyNone, Snapshot)
                /\ UNCHANGED <<day_frame, day_file, notifications>>
           ELSE /\ day_file' = json_dumps(setitem(state, "workout_queue", queue))
                /\ Ran("queue", routine_id,
                       <<PyDict([success |-> PyBool(TRUE), queued |-> PyBool(TRUE),
                                 routine_name |-> get(routine, "name", PyNone),
                                 duration_minutes |->
                                     get(routine, "duration_minutes", PyNone),
                                 trigger |-> trigger,
                                 trigger_description |-> description])>>,
                       "none", state, Snapshot)
                /\ UNCHANGED <<day_frame, notifications>>

\* cmd_queue_trigger()
cmd_queue_trigger ==
    LET state == load_day_state.state
        queue == get(state, "workout_queue", PyDict(<<>>))
        routine_name == get(queue, "routine_name", PyStr("workout"))
        duration == get(queue, "duration_minutes", PyStr("?"))
    IN IF ~Truthy(get(queue, "queued", PyNone))
       THEN /\ day_file' = load_day_state.file
            /\ Ran("queue --trigger", PyNone,
                   <<PyDict([success |-> PyBool(FALSE),
                             error |-> PyStr("No workout queued")])>>,
                   "none", state, Snapshot)
            /\ UNCHANGED <<day_frame, notifications>>
       ELSE \E sent \in send_notification("SWOLE CODE - Workout Time!",
                                           fstring(<<duration, " min">>), routine_name) :
            /\ Len(notifications) < MaxNotifications
            /\ day_file' = json_dumps(setitem(state, "workout_queue",
                               setitem(queue, "triggered_at", isoformat(now))))
            /\ notifications' = sent.notifications
            /\ Ran("queue --trigger", PyNone,
                   IF sent.exc # "none" THEN <<>>
                   ELSE <<PyDict([success |-> PyBool(TRUE), triggered |-> PyBool(TRUE),
                                  routine_name |-> routine_name,
                                  duration_minutes |-> duration])>>,
                   sent.exc, state, Snapshot)
            /\ UNCHANGED day_frame

\* cmd_queue_cancel()
cmd_queue_cancel ==
    LET state == load_day_state.state
        queue == PyDict([queued |-> PyBool(FALSE), routine_id |-> PyNone,
                         routine_name |-> PyNone, duration_minutes |-> PyNone,
                         trigger |-> PyNone, trigger_description |-> PyNone,
                         queued_at |-> PyNone, triggered_at |-> PyNone])
    IN /\ day_file' = json_dumps(setitem(state, "workout_queue", queue))
       /\ Ran("queue --cancel", PyNone,
              <<PyDict([success |-> PyBool(TRUE), cancelled |-> PyBool(TRUE)])>>,
              "none", state, Snapshot)
       /\ UNCHANGED <<day_frame, notifications>>

DayNext ==
    \/ cmd_day
    \/ cmd_morning
    \/ cmd_queue_add
    \/ cmd_queue_trigger
    \/ cmd_queue_cancel
    \/ NextDay

\* ------------------------------------------------- configuration commands
MaxCommands == 2

\* a command-line text as its lexemes: punctuation, bare words, numbers
\* and quoted strings
Punct(c) == [t |-> "punct", v |-> c]
Word(w) == [t |-> "word", v |-> w]
Number(n) == [t |-> "number", n |-> n]
Quoted(s) == [t |-> "string", v |-> s]
Text(text, lexemes) == [text |-> text, lexemes |-> lexemes]

\* json.loads(text): the object for a JSON value, or JSONDecodeError
Undecodable == [ok |-> FALSE, val |-> PyNone, rest |-> <<>>]
Decoded(val, rest) == [ok |-> TRUE, val |-> val, rest |-> rest]
RECURSIVE decode_value(_)
RECURSIVE decode_elements(_, _)
RECURSIVE decode_members(_, _)
decode_value(lexemes) ==
    IF lexemes = <<>> THEN Undecodable
    ELSE LET first == Head(lexemes)
             rest == Tail(lexemes)
         IN CASE first.t = "word" ->
                    (CASE first.v = "true" -> Decoded(PyBool(TRUE), rest)
                       [] first.v = "false" -> Decoded(PyBool(FALSE), rest)
                       [] first.v = "null" -> Decoded(PyNone, rest)
                       [] OTHER -> Undecodable)
              [] first.t = "number" -> Decoded(PyNum(first.n), rest)
              [] first.t = "string" -> Decoded(PyStr(first.v), rest)
              [] first = Punct("[") ->
                    IF rest # <<>> /\ Head(rest) = Punct("]")
                    THEN Decoded(PyList(<<>>), Tail(rest))
                    ELSE decode_elements(rest, <<>>)
              [] first = Punct("{") ->
                    IF rest # <<>> /\ Head(rest) = Punct("}")
                    THEN Decoded(PyDict(<<>>), Tail(rest))
                    ELSE decode_members(rest, PyDict(<<>>))
              [] OTHER -> Undecodable
decode_elements(lexemes, elements) ==
    LET element == decode_value(lexemes)
    IN IF ~element.ok \/ element.rest = <<>> THEN Undecodable
       ELSE IF Head(element.rest) = Punct(",")
       THEN decode_elements(Tail(element.rest), Append(elements, element.val))
       ELSE IF Head(element.rest) = Punct("]")
       THEN Decoded(PyList(Append(elements, element.val)), Tail(element.rest))
       ELSE Undecodable
decode_members(lexemes, members) ==
    IF Len(lexemes) < 3 \/ lexemes[1].t # "string" \/ lexemes[2] # Punct(":")
    THEN Undecodable
    ELSE LET member == decode_value(SubSeq(lexemes, 3, Len(lexemes)))
         IN IF ~member.ok \/ member.rest = <<>> THEN Undecodable
            ELSE IF Head(member.rest) = Punct(",")
            THEN decode_members(Tail(member.rest),
                                setitem(members, lexemes[1].v, member.val))
            ELSE IF Head(member.rest) = Punct("}")
            THEN Decoded(setitem(members, lexemes[1].v, member.val), Tail(member.rest))
            ELSE Undecodable
json_loads_text(value) ==
    LET decoded == decode_value(value.lexemes)
    IN IF decoded.ok /\ decoded.rest = <<>> THEN decoded ELSE Undecodable

\* the VALUE arguments tried: JSON values, boolean keywords in other letter
\* cases, a bare word, and JSON cut short
ValueArgs ==
    { Text("true", <<Word("true")>>),
      Text("True", <<Word("True")>>),
      Text("FALSE", <<Word("FALSE")>>),
      Text("15", <<Number(15)>>),
      Text("\"ocean\"", <<Quoted("ocean")>>),
      Text("ocean", <<Word("ocean")>>),
      Text("[\"mat\"]", <<Punct("["), Quoted("mat"), Punct("]")>>),
      Text("[\"mat\"", <<Punct("["), Quoted("mat")>>) }

\* the KEY arguments tried, piece by piece, and "".join(pieces)
KeyArgs ==
    { <<"theme">>,
      <<"quiet_hours", ".", "enabled">>,
      <<"sounds", ".", "done">>,
      <<"theme", ".", "dark">> }
RECURSIVE Join(_)
Join(pieces) == IF pieces = <<>> THEN "" ELSE Head(pieces) \o Join(Tail(pieces))

\* key.split('.')
key_parts(key) == [i \in 1..Len(Split(key, ".")) |-> Join(Split(key, ".")[i])]

\* the parsed_value of cmd_config_set, and one that knows no boolean keywords
parsed_value_json_only(value) ==
    IF json_loads_text(value).ok THEN json_loads_text(value).val ELSE PyStr(value.text)
parsed_value(value) ==
    IF json_loads_text(value).ok THEN json_loads_text(value).val
    ELSE IF lower(value.text) = "true" THEN PyBool(TRUE)
    ELSE IF lower(value.text) = "false" THEN PyBool(FALSE)
    ELSE PyStr(value.text)

\* the walk of lines 2183-2189 down target by keys and the assignment at
\* the end of it: the configuration afterwards, or the TypeError that a
\* target which is no dict raises. The second operator assigns a dict
\* that holds the leaf alone.
RECURSIVE set_leaf_alone(_, _, _)
set_leaf_alone(target, keys, val) ==
    IF target.kind # "dict" THEN [exc |-> "TypeError", val |-> target]
    ELSE IF Len(keys) = 1 THEN [exc |-> "none", val |-> setitem(target, keys[1], val)]
    ELSE LET below == set_leaf_alone(PyDict(<<>>), Tail(keys), val)
         IN [exc |-> below.exc, val |-> setitem(target, keys[1], below.val)]
RECURSIVE set_leaf(_, _, _)
set_leaf(target, keys, val) ==
    IF target.kind # "dict" THEN [exc |-> "TypeError", val |-> target]
    ELSE IF Len(keys) = 1 THEN [exc |-> "none", val |-> setitem(target, keys[1], val)]
    ELSE LET below == set_leaf(get(target, keys[1], PyDict(<<>>)), Tail(keys), val)
         IN [exc |-> below.exc,
             val |-> IF below.exc = "none" THEN setitem(target, keys[1], below.val)
                     ELSE target]

\* the stored documents as a configuration command finds them, and the
\* number of commands run so far
Commands == IF pre = Absent THEN 0 ELSE pre.commands
Counted ==
    [pending |-> pending_file, last_suggested |-> last_suggested_file,
     rows |-> exercises_rows, routines |-> routine_rows, log |-> log_file,
     notifications |-> notifications, config |-> config_file, day |-> day_file,
     tables |-> tables_exist, now |-> now, today |-> today, utc_today |-> utc_today,
     commands |-> Commands + 1]

\* everything but CONFIG_FILE and the history variables
config_frame ==
    <<store_frame, now, today, utc_today, EXERCISES, day_file, pending_file,
      last_suggested_file, tables_exist, exercises_rows, routine_rows, log_file,
      notifications, latest, suggested>>

\* cmd_config_get()
cmd_config_get ==
    /\ Commands < MaxCommands
    /\ Ran("config-get", PyNone, <<load_config_result>>, "none", PyNone, Counted)
    /\ UNCHANGED <<config_frame, config_file>>

\* cmd_config_set(key, value)
cmd_config_set ==
    \E key \in KeyArgs, value \in ValueArgs :
        LET keys == key_parts(key)
            set == set_leaf(load_config_result, keys, parsed_value(value))
        IN /\ Commands < MaxCommands
           /\ IF set.exc # "none"
              THEN /\ Ran("config-set", [key |-> key, value |-> value], <<>>, set.exc,
                          PyNone, Counted)
                   /\ UNCHANGED <<config_frame, config_file>>
              ELSE /\ config_file' = json_dumps(set.val)
                   /\ Ran("config-set", [key |-> key, value |-> value],
                          <<fstring(<<"Set ", Join(key), " = ",
                                      json_dumps(parsed_value(value))>>)>>,
                          "none", PyNone, Counted)
                   /\ UNCHANGED config_frame

\* the exercise documents tried: complete, without count, cut short, a list
\* and a number
ExerciseArgs ==
    { Text("{\"name\": \"squats\", \"count\": 20, \"category\": \"legs\", \"intensity\": \"moderate\"}",
           <<Punct("{"), Quoted("name"), Punct(":"), Quoted("squats"), Punct(","),
             Quoted("count"), Punct(":"), Number(20), Punct(","),
             Quoted("category"), Punct(":"), Quoted("legs"), Punct(","),
             Quoted("intensity"), Punct(":"), Quoted("moderate"), Punct("}")>>),
      Text("{\"name\": \"squats\"}",
           <<Punct("{"), Quoted("name"), Punct(":"), Quoted("squats"), Punct("}")>>),
      Text("{\"name\": \"squats\"",
           <<Punct("{"), Quoted("name"), Punct(":"), Quoted("squats")>>),
      Text("[\"squats\"]", <<Punct("["), Quoted("squats"), Punct("]")>>),
      Text("5", <<Number(5)>>) }

\* the fields cmd_add_exercise requires, in the order it looks for them
required == <<"name", "count", "category", "intensity">>

\* `field not in exercise` for a dict or a list; any other object decoded
\* from JSON here is not iterable
contains(exercise, field) ==
    CASE exercise.kind = "dict" -> has(exercise, field)
      [] exercise.kind = "list" ->
            \E i \in 1..Len(exercise.v) : exercise.v[i] = PyStr(field)
      [] OTHER -> FALSE

\* cmd_add_exercise(exercise_json), and one that saves the configuration it
\* loaded and rejects every document
cmd_add_exercise_saving ==
    \E exercise_json \in ExerciseArgs :
        /\ Commands < MaxCommands
        /\ config_file' = json_dumps(load_config_result)
        /\ Ran("add-exercise", exercise_json, <<PyStr("Error: Invalid JSON")>>, "none",
               PyNone, Counted)
        /\ UNCHANGED config_frame
cmd_add_exercise ==
    \E exercise_json \in ExerciseArgs :
        LET config == load_config_result
            decoded == json_loads_text(exercise_json)
            exercise == decoded.val
            missing == SelectSeq(required, LAMBDA field : ~contains(exercise, field))
            custom == get(config, "custom_exercises", PyList(<<>>))
            added == setitem(config, "custom_exercises",
                             PyList(Append(custom.v,
                                           setitem(exercise, "custom", PyBool(TRUE)))))
        IN /\ Commands < MaxCommands
           /\ IF ~decoded.ok
              THEN /\ Ran("add-exercise", exercise_json, <<PyStr("Error: Invalid JSON")>>,
                          "none", PyNone, Counted)
                   /\ UNCHANGED <<config_frame, config_file>>
              ELSE IF exercise.kind \notin {"dict", "list"}
              THEN /\ Ran("add-exercise", exercise_json, <<>>, "TypeError", PyNone, Counted)
                   /\ UNCHANGED <<config_frame, config_file>>
              ELSE IF missing # <<>>
              THEN /\ Ran("add-exercise", exercise_json,
                          <<fstring(<<"Error: Missing required field '", Head(missing),
                                      "'">>)>>,
                          "none", PyNone, Counted)
                   /\ UNCHANGED <<config_frame, config_file>>
              ELSE IF exercise.kind # "dict"
              THEN /\ Ran("add-exercise", exercise_json, <<>>, "TypeError", PyNone, Counted)
                   /\ UNCHANGED <<config_frame, config_file>>
              ELSE /\ config_file' = json_dumps(added)
                   /\ Ran("add-exercise", exercise_json,
                          <<fstring(<<"Added custom exercise: ", exercise.v["name"]>>)>>,
                          "none", PyNone, Counted)
                   /\ UNCHANGED config_frame

CliNext ==
    \/ cmd_config_get
    \/ cmd_config_set
    \/ cmd_add_exercise

\* --------------------------------------------------- interactive session
MaxDepth == 3
MaxVisits == 1
MaxCustom == 1
MaxNumber == 40

\* str(n) for n >= 0, and int(s) on a text without sign or blanks
RECURSIVE str(_)
str(n) ==
    LET digits == <<"0", "1", "2", "3", "4", "5", "6", "7", "8", "9">>
    IN IF n < 10 THEN digits[n + 1] ELSE str(n \div 10) \o digits[(n % 10) + 1]
int(s) ==
    IF \E n \in 0..MaxNumber : str(n) = s
    THEN [ok |-> TRUE, val |-> CHOOSE n \in 0..MaxNumber : str(n) = s]
    ELSE [ok |-> FALSE, val |-> 0]

\* what the user types into a prompt that asks for a number, and into one
\* that asks for a name or a link
TypedNumbers == {"7", "abc", ""}
TypedNames == {"abc", ""}

\* one run of a widget: what the user did, the exception run() ended with,
\* and the object it returned
Outcome(act, exc, ret) == [act |-> act, exc |-> exc, ret |-> ret]

\* the exceptions that leave app.run() when the input ends or is interrupted
app_run_raises ==
    { sig \in {"EOFError", "KeyboardInterrupt"} : "raised" \in app_run_outcomes(sig) }

\* InteractiveMenu(title, items).run() for items with the given values
MenuRuns(vals) ==
    IF PROMPT_TOOLKIT_AVAILABLE
    THEN { Outcome("confirm", "none", vals[i]) : i \in 1..Len(vals) }
           \cup (IF Len(vals) = 0 THEN { Outcome("confirm", "IndexError", PyNone) } ELSE {})
           \cup { Outcome("cancel", "none", PyNone) }
           \cup { Outcome("interrupt", sig, PyNone) : sig \in app_run_raises }
    ELSE IF \E i \in 1..Len(vals) : ~Hashable(vals[i])
         THEN { Outcome("open", "TypeError", PyNone) }
         ELSE { Outcome("confirm", "none", vals[i]) : i \in 1..Len(vals) }
                \cup (IF Len(vals) = 0
                      THEN { Outcome("confirm", "IndexError", PyNone) } ELSE {})
                \cup { Outcome("cancel", "none", PyNone),
                       Outcome("interrupt", "none", PyNone) }

\* the items the user goes for in a menu whose choice is only stored
Some(vals) == IF Len(vals) <= 2 THEN vals ELSE <<vals[1], vals[Len(vals)]>>

\* the same for a multi-select menu that offers the values in offered and
\* opens with the set sel selected: the user toggles at most one item, or
\* all of them off
MultiMenuRuns(offered, sel) ==
    LET sets == {sel, sel \ offered} \cup { Flip(sel, val) : val \in offered }
    IN { Outcome("confirm", "none", PySet(S)) : S \in sets }
         \cup (IF PROMPT_TOOLKIT_AVAILABLE
               THEN { Outcome("cancel", "none", PyNone) }
                      \cup { Outcome("interrupt", sig, PyNone) : sig \in app_run_raises }
               ELSE { Outcome("interrupt", "none", PyNone) })

\* InputPrompt(prompt, default).run() when the user types one of typed, or
\* leaves the line as it is shown
PromptRuns(default, typed) ==
    IF PROMPT_TOOLKIT_AVAILABLE
    THEN { Outcome("confirm", "none", PyStr(t)) : t \in typed \cup {default} }
           \cup { Outcome("cancel", "none", PyNone), Outcome("interrupt", "none", PyNone) }
    ELSE { Outcome("confirm", "none", PyStr(IF t # "" THEN t ELSE default)) : t \in typed }
           \cup { Outcome("interrupt", "none", PyNone) }

\* the same for a prompt that asks for a number: a line the user has
\* submitted is noted as a number, as empty, or as no number
NumberRuns(default) ==
    { IF o.act # "confirm" THEN o
      ELSE [o EXCEPT !.act = IF int(o.ret.v).ok THEN "number"
                              ELSE IF o.ret.v = "" THEN "empty" ELSE "not_number"] :
      o \in PromptRuns(default, TypedNumbers) }

\* TabbedView(tabs).run(), and press_any_key()
ViewRuns ==
    IF PROMPT_TOOLKIT_AVAILABLE
    THEN { Outcome("cancel", "none", PyNone) }
           \cup { Outcome("interrupt", sig, PyNone) : sig \in app_run_raises }
    ELSE { Outcome("cancel", "none", PyNone), Outcome("interrupt", "none", PyNone) }
press_any_key ==
    IF PROMPT_TOOLKIT_AVAILABLE
    THEN { Outcome("confirm", "none", PyNone) }
           \cup { Outcome("interrupt", sig, PyNone) : sig \in app_run_raises }
    ELSE { Outcome("confirm", "none", PyNone), Outcome("interrupt", "none", PyNone) }

\* the call stack of the session: the frame on top waits for a widget or
\* takes its next step
Running == app_pc = "running" /\ Len(stack) > 0
Top == stack[Len(stack)]
In(fn, pc) == Running /\ Top.fn = fn /\ Top.pc = pc
Frame(fn, pc, loc) == [fn |-> fn, pc |-> pc, loc |-> loc]
NoLocals == [none |-> PyNone]
Goto(pc, loc) == [stack EXCEPT ![Len(stack)] = Frame(Top.fn, pc, loc)]
Call(pc, loc, fn, arg) == Append(Goto(pc, loc), Frame(fn, "start", arg))
Return == SubSeq(stack, 1, Len(stack) - 1)

\* everything a step of the session can leave alone
files == <<config_file, day_file, pending_file, last_suggested_file, tables_exist,
           exercises_rows, routine_rows, log_file, notifications>>
session_frame ==
    <<PROMPT_TOOLKIT_AVAILABLE, menu_vars, prompt_vars, tab_vars, now, today, utc_today, EXERCISES,
      cmd_vars>>

\* a step that no widget takes part in
Internal(stk, ret) ==
    /\ stack' = stk
    /\ app_ret' = ret
    /\ UNCHANGED <<app_pc, app_exc, app_ev, session_frame>>

\* the widget on top ended with outcome o: the exception leaves every
\* handler on the stack and main_menu, none of which catches it
Seen(o) == app_ev' = [fn |-> Top.fn, act |-> o.act, ret |-> o.ret]
Raised(o) ==
    /\ o.exc # "none"
    /\ Seen(o)
    /\ app_pc' = "crashed"
    /\ app_exc' = o.exc
    /\ UNCHANGED <<stack, app_ret, app_config, files, session_frame>>
Returned(o, stk, ret) ==
    /\ o.exc = "none"
    /\ Seen(o)
    /\ stack' = stk
    /\ app_ret' = ret
    /\ UNCHANGED <<app_pc, app_exc, session_frame>>

\* the step changes neither the configuration held nor any file
Quiet == UNCHANGED <<app_config, files>>

\* save_config(config) for the configuration cfg the handler now holds
Saved(cfg) ==
    /\ app_config' = cfg
    /\ config_file' = json_dumps(cfg)
    /\ UNCHANGED <<day_file, pending_file, last_suggested_file, tables_exist,
                   exercises_rows, routine_rows, log_file, notifications>>

\* press_any_key(), after which the handler goes on as stk
AnyKeyThen(stk) ==
    \E o \in press_any_key : Raised(o) \/ (Returned(o, stk, app_ret) /\ Quiet)

\* a menu or a prompt whose outcome o takes the handler on as Then(o)
Asks(outcomes, Then(_)) ==
    \E o \in outcomes : Raised(o) \/ (Returned(o, Then(o), app_ret) /\ Quiet)

\* main_menu(): init_db(), load_config(), then the loop
Handler(choice) ==
    CASE choice = PyStr("log_exercise") -> "log_exercise"
      [] choice = PyStr("log_routine") -> "log_routine"
      [] choice = PyStr("suggest") -> "suggest_exercise"
      [] choice = PyStr("stats") -> "show_stats"
      [] choice = PyStr("history") -> "show_history"
      [] choice = PyStr("config") -> "show_config"

main_menu ==
    \/ /\ app_pc = "idle"
       /\ app_pc' = "running"
       /\ tables_exist' = TRUE
       /\ app_config' = load_config_result
       /\ stack' = <<Frame("main_menu", "menu", [visits |-> 0])>>
       /\ UNCHANGED <<app_exc, app_ev, app_ret, session_frame, config_file, day_file,
                      pending_file, last_suggested_file, exercises_rows, routine_rows,
                      log_file, notifications>>
    \/ /\ In("main_menu", "menu")
       /\ \E o \in MenuRuns(<<PyStr("log_exercise"), PyStr("log_routine"),
                              PyStr("suggest"), PyStr("stats"), PyStr("history"),
                              PyStr("config"), PyStr("quit")>>) :
             \/ Raised(o)
             \/ /\ o.exc = "none"
                /\ Seen(o)
                /\ IF o.ret = PyNone \/ o.ret = PyStr("quit")
                   THEN app_pc' = "ended" /\ stack' = <<>>
                   ELSE /\ Top.loc.visits < MaxVisits
                        /\ app_pc' = app_pc
                        /\ stack' = Call("called", [visits |-> Top.loc.visits + 1],
                                         Handler(o.ret), NoLocals)
                /\ UNCHANGED <<app_exc, app_ret, app_config, files, session_frame>>
    \/ /\ In("main_menu", "called")
       /\ Internal(Goto("menu", Top.loc), app_ret)
       /\ Quiet

\* show_stats(config)
show_stats ==
    \/ /\ In("show_stats", "start")
       /\ Internal(Goto("press_any_key", NoLocals), app_ret)
       /\ Quiet
    \/ /\ In("show_stats", "press_any_key")
       /\ AnyKeyThen(Return)

\* show_history(config)
show_history ==
    \/ /\ In("show_history", "start")
       /\ Internal(Goto("view", NoLocals), app_ret)
       /\ Quiet
    \/ /\ In("show_history", "view")
       /\ \E o \in ViewRuns :
             \/ Raised(o)
             \/ Returned(o, Return, app_ret) /\ Quiet

\* the list a handler does config.get(key, []) on
config_list(key) == get(app_config, key, PyList(<<>>)).v

\* log_exercise_db(...) from the menus: the rows and the log afterwards,
\* and an INSERT OR REPLACE that leaves the new row alone in the table
LogExerciseReplacing(name, count, unit, category, intensity) ==
    /\ Len(exercises_rows) < MaxRows
    /\ exercises_rows' = <<exercise_row(name, count, unit, category, intensity,
                                         PyStr("manual"))>>
    /\ log_file' = log_to_markdown(
                      fstring(<<count, " ", IF unit # PyStr("reps") THEN unit ELSE PyStr(""),
                                " ", name>>),
                      category, intensity)
    /\ UNCHANGED <<config_file, day_file, pending_file, last_suggested_file, tables_exist,
                   routine_rows, notifications>>
\* an insert that runs twice
LogExerciseTwice(name, count, unit, category, intensity) ==
    LET row == exercise_row(name, count, unit, category, intensity, PyStr("manual"))
    IN /\ Len(exercises_rows) < MaxRows
       /\ exercises_rows' = Append(Append(exercises_rows, row), row)
       /\ log_file' = log_to_markdown(
                         fstring(<<count, " ", IF unit # PyStr("reps") THEN unit ELSE PyStr(""),
                                   " ", name>>),
                         category, intensity)
       /\ UNCHANGED <<config_file, day_file, pending_file, last_suggested_file,
                      tables_exist, routine_rows, notifications>>
LogExercise(name, count, unit, category, intensity) ==
    /\ Len(exercises_rows) < MaxRows
    /\ exercises_rows' = Append(exercises_rows,
                                exercise_row(name, count, unit, category, intensity,
                                             PyStr("manual")))
    /\ log_file' = log_to_markdown(
                      fstring(<<count, " ", IF unit # PyStr("reps") THEN unit ELSE PyStr(""),
                                " ", name>>),
                      category, intensity)
    /\ UNCHANGED <<config_file, day_file, pending_file, last_suggested_file, tables_exist,
                   routine_rows, notifications>>

\* log_exercise(config)
log_exercise ==
    \/ /\ In("log_exercise", "start")
       /\ Internal(Goto("menu", NoLocals), app_ret)
       /\ Quiet
    \/ /\ In("log_exercise", "menu")
       /\ \E o \in MenuRuns(EXERCISES \o config_list("custom_exercises")) :
             \/ Raised(o)
             \/ /\ Returned(o, IF o.ret = PyNone THEN Return
                               ELSE Goto("prompt", [exercise |-> o.ret]), app_ret)
                /\ Quiet
    \/ /\ In("log_exercise", "prompt")
       /\ LET exercise == Top.loc.exercise
          IN \E o \in NumberRuns(str(exercise.v["count"].v)) :
                \/ Raised(o)
                \/ /\ o.ret = PyNone
                   /\ Returned(o, Return, app_ret)
                   /\ Quiet
                \/ /\ o.ret # PyNone
                   /\ Returned(o, Goto("press_any_key", NoLocals), app_ret)
                   /\ LogExercise(exercise.v["name"],
                                  IF int(o.ret.v).ok THEN PyNum(int(o.ret.v).val)
                                  ELSE exercise.v["count"],
                                  get(exercise, "unit", PyStr("reps")),
                                  get(exercise, "category", PyStr("general")),
                                  get(exercise, "intensity", PyStr("moderate")))
                   /\ UNCHANGED app_config
    \/ /\ In("log_exercise", "press_any_key")
       /\ AnyKeyThen(Return)

\* the row log_routine_db inserts; a routine without an id gets a random one
routine_row(routine, task_desc) ==
    [routine_id |-> get(routine, "id", PyStr("uuid4")),
     routine_name |-> routine.v["name"],
     routine_type |-> get(routine, "type", PyStr("custom")),
     duration_minutes |-> get(routine, "duration_minutes", PyNum(0)),
     intensity |-> get(routine, "intensity", PyStr("moderate")),
     task_description |-> task_desc,
     timestamp |-> utc_today, logged_on |-> today]

\* log_routine(config)
log_routine ==
    \/ /\ In("log_routine", "start")
       /\ Internal(Goto("menu", NoLocals), app_ret)
       /\ Quiet
    \/ /\ In("log_routine", "menu")
       /\ \E o \in MenuRuns(sample_routines \o config_list("custom_routines")) :
             \/ Raised(o)
             \/ /\ Returned(o, IF o.ret = PyNone THEN Return
                               ELSE Goto("confirm", [routine |-> o.ret]), app_ret)
                /\ Quiet
    \/ /\ In("log_routine", "confirm")
       /\ LET routine == Top.loc.routine
          IN \E o \in MenuRuns(<<PyStr("log"), PyStr("back")>>) :
                \/ Raised(o)
                \/ /\ o.ret # PyStr("log")
                   /\ Returned(o, Return, app_ret)
                   /\ Quiet
                \/ /\ o.ret = PyStr("log")
                   /\ Len(routine_rows) < MaxRows
                   /\ Returned(o, Goto("press_any_key", NoLocals), app_ret)
                   /\ routine_rows' = Append(routine_rows,
                                             routine_row(routine, PyStr("manual")))
                   /\ log_file' = log_to_markdown(
                         fstring(<<routine.v["name"], " (",
                                   get(routine, "duration_minutes", PyStr("?")), " min)">>),
                         get(routine, "type", PyStr("routine")),
                         get(routine, "intensity", PyStr("moderate")))
                   /\ UNCHANGED <<app_config, config_file, day_file, pending_file,
                                  last_suggested_file, tables_exist, exercises_rows,
                                  notifications>>
    \/ /\ In("log_routine", "press_any_key")
       /\ AnyKeyThen(Return)

\* the exercises suggest_exercise draws from: the equipment filter, then
\* the intensity filter when it leaves any
suggest_pool ==
    LET by_equipment ==
            SelectSeq(EXERCISES \o config_list("custom_exercises"),
                      LAMBDA e : equipment_ok(e, app_config))
        pref == get(app_config, "intensity_preference", PyStr("mixed"))
        by_intensity ==
            SelectSeq(by_equipment,
                      LAMBDA e : get(e, "intensity", PyStr("moderate")) = pref)
    IN IF pref # PyStr("mixed") /\ Len(by_intensity) > 0 THEN by_intensity
       ELSE by_equipment

\* suggest_exercise(config)
suggest_exercise ==
    \/ /\ In("suggest_exercise", "start")
       /\ IF Len(suggest_pool) = 0
          THEN Internal(Goto("no_match", NoLocals), app_ret)
          ELSE \E i \in 1..Len(suggest_pool) :
                  Internal(Goto("menu", [exercise |-> suggest_pool[i]]), app_ret)
       /\ Quiet
    \/ /\ In("suggest_exercise", "no_match")
       /\ AnyKeyThen(Return)
    \/ /\ In("suggest_exercise", "menu")
       /\ LET exercise == Top.loc.exercise
          IN \E o \in MenuRuns(<<PyStr("log"), PyStr("another"), PyStr("back")>>) :
                \/ Raised(o)
                \/ /\ o.ret = PyStr("log")
                   /\ Returned(o, Goto("press_any_key", NoLocals), app_ret)
                   /\ LogExercise(exercise.v["name"], exercise.v["count"],
                                  get(exercise, "unit", PyStr("reps")),
                                  get(exercise, "category", PyStr("general")),
                                  get(exercise, "intensity", PyStr("moderate")))
                   /\ UNCHANGED app_config
                \/ /\ o.ret = PyStr("another")
                   /\ Len(stack) < MaxDepth
                   /\ Returned(o, Call("called", NoLocals, "suggest_exercise", NoLocals),
                               app_ret)
                   /\ Quiet
                \/ /\ o.ret \notin {PyStr("log"), PyStr("another")}
                   /\ Returned(o, Return, app_ret)
                   /\ Quiet
    \/ /\ In("suggest_exercise", "called")
       /\ Internal(Return, app_ret)
       /\ Quiet
    \/ /\ In("suggest_exercise", "press_any_key")
       /\ AnyKeyThen(Return)

\* the values of the key `id` in a list of dicts
ids(seq) == [i \in 1..Len(seq) |-> seq[i].v["id"]]

\* list(S): the elements of a set in the order iteration happens to give
RECURSIVE list(_)
list(S) ==
    IF S = {} THEN {<<>>}
    ELSE UNION { { <<x>> \o rest : rest \in list(S \ {x}) } : x \in S }

\* set(l) for a list l
set(l) == { l.v[i] : i \in 1..Len(l.v) }

\* show_config(config): one menu, then the editor chosen
show_config ==
    \/ /\ In("show_config", "start")
       /\ Internal(Goto("menu", NoLocals), app_ret)
       /\ Quiet
    \/ /\ In("show_config", "menu")
       /\ LET Then(o) ==
                 CASE o.ret = PyStr("theme") ->
                         Call("called", NoLocals, "configure_theme", NoLocals)
                   [] o.ret = PyStr("equipment") ->
                         Call("called", NoLocals, "configure_equipment", NoLocals)
                   [] o.ret = PyStr("intensity") ->
                         Call("called", NoLocals, "configure_intensity", NoLocals)
                   [] o.ret = PyStr("pattern") ->
                         Call("called", NoLocals, "configure_pattern", NoLocals)
                   [] o.ret = PyStr("categories") ->
                         Call("called", NoLocals, "configure_categories", NoLocals)
                   [] o.ret = PyStr("custom_exercises") ->
                         Call("called", NoLocals, "configure_custom_exercises", NoLocals)
                   [] o.ret = PyStr("custom_routines") ->
                         Call("called", NoLocals, "configure_custom_routines", NoLocals)
                   [] OTHER -> Return
          IN Asks(MenuRuns(<<PyStr("theme"), PyStr("equipment"), PyStr("intensity"),
                             PyStr("pattern"), PyStr("categories"),
                             PyStr("custom_exercises"), PyStr("custom_routines"),
                             PyStr("back")>>), Then)
    \/ /\ In("show_config", "called")
       /\ Internal(Return, app_ret)
       /\ Quiet

\* a handler that stores the choice of one menu under one key:
\* configure_theme, configure_intensity, configure_pattern
StoresChoice(fn, key, vals) ==
    \/ /\ In(fn, "start")
       /\ Internal(Goto("menu", NoLocals), app_ret)
       /\ Quiet
    \/ /\ In(fn, "menu")
       /\ \E o \in MenuRuns(vals) :
             \/ Raised(o)
             \/ /\ o.ret = PyNone
                /\ Returned(o, Return, app_ret)
                /\ Quiet
             \/ /\ o.ret # PyNone
                /\ Returned(o, Goto("press_any_key", NoLocals), app_ret)
                /\ Saved(setitem(app_config, key, o.ret))
    \/ /\ In(fn, "press_any_key")
       /\ AnyKeyThen(Return)

configure_theme ==
    StoresChoice("configure_theme", "theme",
                 Some(<<PyStr("fire"), PyStr("rainbow"), PyStr("ocean"), PyStr("matrix"),
                        PyStr("mono")>>))

configure_intensity ==
    StoresChoice("configure_intensity", "intensity_preference",
                 Some(<<PyStr("gentle"), PyStr("moderate"), PyStr("intense"),
                        PyStr("mixed")>>))

configure_pattern ==
    StoresChoice("configure_pattern", "weekly_pattern", Some(ids(weekly_patterns)))

\* configure_equipment(config)
configure_equipment ==
    \/ /\ In("configure_equipment", "start")
       /\ Internal(Goto("menu", NoLocals), app_ret)
       /\ Quiet
    \/ /\ In("configure_equipment", "menu")
       /\ LET current == set(get(app_config, "equipment", PyList(<<PyStr("none")>>)))
          IN \E o \in MultiMenuRuns(set(PyList(ids(equipment_types))), current) :
                \/ Raised(o)
                \/ /\ o.ret = PyNone
                   /\ Returned(o, Return, app_ret)
                   /\ Quiet
                \/ /\ o.ret # PyNone
                   /\ Returned(o, Goto("press_any_key", NoLocals), app_ret)
                   /\ \E l \in IF Truthy(o.ret) THEN list(o.ret.v) ELSE {<<PyStr("none")>>} :
                         Saved(setitem(app_config, "equipment", PyList(l)))
    \/ /\ In("configure_equipment", "press_any_key")
       /\ AnyKeyThen(Return)

\* configure_categories(config)
configure_categories ==
    \/ /\ In("configure_categories", "start")
       /\ Internal(Goto("menu", NoLocals), app_ret)
       /\ Quiet
    \/ /\ In("configure_categories", "menu")
       /\ LET cats == get(app_config, "categories", PyDict(<<>>))
              current == { PyStr(cat) : cat \in { k \in DOMAIN cats.v : Truthy(cats.v[k]) } }
          IN \E o \in MultiMenuRuns({ PyStr(cat) : cat \in DOMAIN cats.v }, current) :
                \/ Raised(o)
                \/ /\ o.ret = PyNone
                   /\ Returned(o, Return, app_ret)
                   /\ Quiet
                \/ /\ o.ret # PyNone
                   /\ Returned(o, Goto("press_any_key", NoLocals), app_ret)
                   /\ Saved(setitem(app_config, "categories",
                            PyDict([cat \in DOMAIN cats.v |->
                                       PyBool(PyStr(cat) \in o.ret.v)])))
    \/ /\ In("configure_categories", "press_any_key")
       /\ AnyKeyThen(Return)

\* f"edit:{i}" and int(choice.split(":")[1])
edit_value(i) == PyStr("edit:" \o str(i))
edit_index(choice) == CHOOSE i \in 0..MaxNumber : edit_value(i) = choice

\* l[idx] = val, l.pop(idx) and l.append(val) on the list under key of the
\* configuration held
config_put(key, idx, val) ==
    setitem(app_config, key, PyList([config_list(key) EXCEPT ![idx + 1] = val]))
config_pop(key, idx) ==
    setitem(app_config, key,
            PyList(SubSeq(config_list(key), 1, idx)
                   \o SubSeq(config_list(key), idx + 2, Len(config_list(key)))))
config_append(key, val) ==
    setitem(app_config, key, PyList(Append(config_list(key), val)))

\* del d[k] / d.pop(k, None)
delitem(d, k) == PyDict([x \in DOMAIN d.v \ {k} |-> d.v[x]])

\* the loop of configure_custom_exercises / configure_custom_routines; the
\* user opens an editor MaxVisits times at most, and adds no entry beyond
\* MaxCustom
ManagesList(fn, key, add, edit) ==
    \/ /\ In(fn, "start")
       /\ Internal(Goto("menu", [visits |-> 0]), app_ret)
       /\ Quiet
    \/ /\ In(fn, "menu")
       /\ LET entered == [visits |-> Top.loc.visits + 1]
              Then(o) ==
                 IF o.ret = PyNone \/ o.ret = PyStr("back") THEN Return
                 ELSE IF o.ret = PyStr("add")
                      THEN Call("called", entered, add, NoLocals)
                      ELSE Call("called", entered, edit, [idx |-> edit_index(o.ret)])
              runs == MenuRuns(<<PyStr("add")>>
                               \o [i \in 1..Len(config_list(key)) |-> edit_value(i - 1)]
                               \o <<PyStr("back")>>)
          IN Asks({ o \in runs :
                      /\ o.ret = PyStr("add") => Len(config_list(key)) < MaxCustom
                      /\ o.ret \notin {PyNone, PyStr("back")} =>
                            Top.loc.visits < MaxVisits }, Then)
    \/ /\ In(fn, "called")
       /\ Internal(Goto("menu", Top.loc), app_ret)
       /\ Quiet

configure_custom_exercises ==
    ManagesList("configure_custom_exercises", "custom_exercises",
                "add_custom_exercise", "edit_custom_exercise")

configure_custom_routines ==
    ManagesList("configure_custom_routines", "custom_routines",
                "add_custom_routine", "edit_custom_routine")

\* the values of the count-type, category and intensity menus
units == <<PyStr("reps"), PyStr("seconds"), PyStr("each side"), PyStr("each direction")>>
categories ==
    <<PyStr("legs"), PyStr("upper"), PyStr("core"), PyStr("cardio"), PyStr("mobility"),
      PyStr("full")>>
intensities == <<PyStr("gentle"), PyStr("moderate"), PyStr("intense")>>

\* add_custom_exercise(config)
add_custom_exercise ==
    \/ /\ In("add_custom_exercise", "start")
       /\ Internal(Goto("name", NoLocals), app_ret)
       /\ Quiet
    \/ /\ In("add_custom_exercise", "name")
       /\ LET Then(o) == IF ~Truthy(o.ret) THEN Return
                         ELSE Goto("unit", [name |-> o.ret])
          IN Asks(PromptRuns("", TypedNames), Then)
    \/ /\ In("add_custom_exercise", "unit")
       /\ LET Then(o) == IF o.ret = PyNone THEN Return
                         ELSE Goto("count", [name |-> Top.loc.name, unit |-> o.ret])
          IN Asks(MenuRuns(Some(units)), Then)
    \/ /\ In("add_custom_exercise", "count")
       /\ LET Then(o) ==
                 IF ~Truthy(o.ret) THEN Return
                 ELSE IF ~int(o.ret.v).ok THEN Goto("invalid", NoLocals)
                 ELSE Goto("category", [name |-> Top.loc.name, unit |-> Top.loc.unit,
                                        count |-> PyNum(int(o.ret.v).val)])
          IN Asks(NumberRuns("10"), Then)
    \/ /\ In("add_custom_exercise", "invalid")
       /\ AnyKeyThen(Return)
    \/ /\ In("add_custom_exercise", "category")
       /\ LET Then(o) ==
                 IF o.ret = PyNone THEN Return
                 ELSE Goto("intensity", [name |-> Top.loc.name, unit |-> Top.loc.unit,
                                         count |-> Top.loc.count, category |-> o.ret])
          IN Asks(MenuRuns(Some(categories)), Then)
    \/ /\ In("add_custom_exercise", "intensity")
       /\ \E o \in MenuRuns(Some(intensities)) :
             \/ Raised(o)
             \/ /\ o.ret = PyNone
                /\ Returned(o, Return, app_ret)
                /\ Quiet
             \/ /\ o.ret # PyNone
                /\ Returned(o, Goto("press_any_key", NoLocals), app_ret)
                /\ LET l == Top.loc
                       with_unit == PyDict([name |-> l.name, count |-> l.count,
                                            unit |-> l.unit, category |-> l.category,
                                            intensity |-> o.ret, custom |-> PyBool(TRUE)])
                       exercise == IF l.unit = PyStr("reps") THEN delitem(with_unit, "unit")
                                   ELSE with_unit
                   IN Saved(config_append("custom_exercises", exercise))
    \/ /\ In("add_custom_exercise", "press_any_key")
       /\ AnyKeyThen(Return)

\* edit_custom_exercise(config, idx): ex is custom[idx] itself, so every
\* change is a change of the configuration held
edit_custom_exercise ==
    LET idx == Top.loc.idx
        ex == config_list("custom_exercises")[idx + 1]
        Keep == [idx |-> idx]
        Sets(k, val) == app_config' = config_put("custom_exercises", idx, setitem(ex, k, val))
        Still == UNCHANGED files
    IN
    \/ /\ In("edit_custom_exercise", "start")
       /\ Internal(IF idx >= Len(config_list("custom_exercises")) THEN Return
                   ELSE Goto("menu", Keep), app_ret)
       /\ Quiet
    \/ /\ In("edit_custom_exercise", "menu")
       /\ \E o \in MenuRuns(<<PyStr("name"), PyStr("count"), PyStr("category"),
                              PyStr("intensity"), PyStr("delete"), PyStr("done")>>) :
             \/ Raised(o)
             \/ /\ o.ret = PyNone \/ o.ret = PyStr("done")
                /\ Returned(o, Return, app_ret)
                /\ Saved(app_config)
             \/ /\ o.ret # PyNone /\ o.ret # PyStr("done")
                /\ Returned(o, Goto(IF o.ret = PyStr("count") THEN "unit" ELSE o.ret.v, Keep),
                            app_ret)
                /\ Quiet
    \/ /\ In("edit_custom_exercise", "name")
       /\ \E o \in PromptRuns(ex.v["name"].v, TypedNames) :
             \/ Raised(o)
             \/ /\ Returned(o, Goto("menu", Keep), app_ret)
                /\ IF Truthy(o.ret) THEN Sets("name", o.ret) ELSE UNCHANGED app_config
                /\ Still
    \/ /\ In("edit_custom_exercise", "unit")
       /\ LET Then(o) == IF Truthy(o.ret) THEN Goto("count", [idx |-> idx, new_unit |-> o.ret])
                         ELSE Goto("menu", Keep)
          IN Asks(MenuRuns(Some(units)), Then)
    \/ /\ In("edit_custom_exercise", "count")
       /\ \E o \in NumberRuns(str(ex.v["count"].v)) :
             \/ Raised(o)
             \/ /\ o.exc = "none"
                /\ LET n == int(o.ret.v)
                       counted == setitem(ex, "count", PyNum(n.val))
                       new_unit == Top.loc.new_unit
                   IN IF ~Truthy(o.ret)
                      THEN Returned(o, Goto("menu", Keep), app_ret) /\ Quiet
                      ELSE IF ~n.ok
                      THEN Returned(o, Goto("invalid", Keep), app_ret) /\ Quiet
                      ELSE /\ Returned(o, Goto("menu", Keep), app_ret)
                           /\ app_config' =
                                 config_put("custom_exercises", idx,
                                            IF new_unit = PyStr("reps")
                                            THEN delitem(counted, "unit")
                                            ELSE setitem(counted, "unit", new_unit))
                           /\ Still
    \/ /\ In("edit_custom_exercise", "invalid")
       /\ AnyKeyThen(Goto("menu", Keep))
    \/ /\ In("edit_custom_exercise", "category")
       /\ \E o \in MenuRuns(Some(categories)) :
             \/ Raised(o)
             \/ /\ Returned(o, Goto("menu", Keep), app_ret)
                /\ IF Truthy(o.ret) THEN Sets("category", o.ret) ELSE UNCHANGED app_config
                /\ Still
    \/ /\ In("edit_custom_exercise", "intensity")
       /\ \E o \in MenuRuns(Some(intensities)) :
             \/ Raised(o)
             \/ /\ Returned(o, Goto("menu", Keep), app_ret)
                /\ IF Truthy(o.ret) THEN Sets("intensity", o.ret) ELSE UNCHANGED app_config
                /\ Still
    \/ /\ In("edit_custom_exercise", "delete")
       /\ \E o \in MenuRuns(<<PyStr("yes"), PyStr("no")>>) :
             \/ Raised(o)
             \/ /\ o.ret = PyStr("yes")
                /\ Returned(o, Goto("press_any_key", Keep), app_ret)
                /\ Saved(config_pop("custom_exercises", idx))
             \/ /\ o.ret # PyStr("yes")
                /\ Returned(o, Goto("menu", Keep), app_ret)
                /\ Quiet
    \/ /\ In("edit_custom_exercise", "press_any_key")
       /\ AnyKeyThen(Return)

\* the routine a frame of routine_editor works on: the dict made by
\* add_custom_routine, or custom[idx] of the configuration held
routine_of(frame) ==
    IF frame.loc.is_new THEN frame.loc.routine
    ELSE config_list("custom_routines")[frame.loc.idx + 1]

\* the routine of the frame at depth d becomes r while the stack becomes
\* stk: a new routine is the editor's own object, an existing one is part of
\* the configuration held
Edited(d, r, stk) ==
    IF stack[d].loc.is_new
    THEN /\ stack' = [stk EXCEPT ![d].loc.routine = r]
         /\ app_config' = app_config
    ELSE /\ stack' = stk
         /\ app_config' = config_put("custom_routines", stack[d].loc.idx, r)

\* a widget outcome after which the routine at depth d is r
Edits(o, d, r, stk) ==
    /\ o.exc = "none"
    /\ Seen(o)
    /\ Edited(d, r, stk)
    /\ UNCHANGED <<app_pc, app_exc, app_ret, files, session_frame>>

\* add_custom_routine(config); uuid4 stands for the eight characters of a
\* random id
add_custom_routine ==
    \/ /\ In("add_custom_routine", "start")
       /\ Internal(Goto("name", NoLocals), app_ret)
       /\ Quiet
    \/ /\ In("add_custom_routine", "name")
       /\ LET routine(name) ==
                 PyDict([id |-> PyStr("uuid4"), name |-> name, type |-> PyStr("custom"),
                         duration_minutes |-> PyNum(15), intensity |-> PyStr("moderate"),
                         custom |-> PyBool(TRUE)])
              Then(o) ==
                 IF ~Truthy(o.ret) THEN Return
                 ELSE Call("called", NoLocals, "routine_editor",
                           [is_new |-> TRUE, routine |-> routine(o.ret)])
          IN Asks(PromptRuns("", TypedNames), Then)
    \/ /\ In("add_custom_routine", "called")
       /\ IF app_ret # PyNone
          THEN /\ Internal(Goto("press_any_key", NoLocals), PyNone)
               /\ Saved(config_append("custom_routines", app_ret))
          ELSE Internal(Return, PyNone) /\ Quiet
    \/ /\ In("add_custom_routine", "press_any_key")
       /\ AnyKeyThen(Return)

\* routine_editor(config, routine, is_new)
routine_editor ==
    LET d == Len(stack)
        routine == routine_of(Top)
        Keep == Top.loc
        Sets(o, k) ==
            IF Truthy(o.ret) THEN Edits(o, d, setitem(routine, k, o.ret), Goto("menu", Keep))
            ELSE Returned(o, Goto("menu", Keep), app_ret) /\ Quiet
    IN
    \/ /\ In("routine_editor", "start")
       /\ Internal(Goto("menu", Keep), app_ret)
       /\ Quiet
    \/ /\ In("routine_editor", "menu")
       /\ \E o \in MenuRuns(<<PyStr("name"), PyStr("type"), PyStr("duration"),
                              PyStr("intensity"), PyStr("url"), PyStr("exercises")>>
                            \o (IF Keep.is_new THEN <<PyStr("save"), PyStr("cancel")>>
                                ELSE <<PyStr("delete"), PyStr("done")>>)) :
             \/ Raised(o)
             \/ /\ o.ret \in {PyNone, PyStr("cancel")}
                /\ Returned(o, Return, PyNone)
                /\ Quiet
             \/ /\ o.ret \in {PyStr("save"), PyStr("done")}
                /\ Returned(o, Return, routine)
                /\ Quiet
             \/ /\ o.ret = PyStr("delete")
                /\ Returned(o, Return, PyStr("DELETE"))
                /\ Quiet
             \/ /\ o.ret \in {PyStr("name"), PyStr("type"), PyStr("duration"),
                              PyStr("intensity")}
                /\ Returned(o, Goto(o.ret.v, Keep), app_ret)
                /\ Quiet
             \/ /\ o.ret = PyStr("url")
                /\ Returned(o, Goto(IF Truthy(get(routine, "url", PyStr("")))
                                    THEN "url_menu" ELSE "url", Keep), app_ret)
                /\ Quiet
             \/ /\ o.ret = PyStr("exercises")
                /\ Edits(o, d, setitem(routine, "exercises",
                                       get(routine, "exercises", PyList(<<>>))),
                         Call("called", Keep, "build_routine_exercises",
                              [opened |-> get(routine, "exercises", PyList(<<>>))]))
    \/ /\ In("routine_editor", "name")
       /\ \E o \in PromptRuns(routine.v["name"].v, TypedNames) :
             Raised(o) \/ Sets(o, "name")
    \/ /\ In("routine_editor", "type")
       /\ \E o \in MenuRuns(ids(routine_types) \o <<PyStr("custom")>>) :
             Raised(o) \/ Sets(o, "type")
    \/ /\ In("routine_editor", "duration")
       /\ \E o \in NumberRuns(str(get(routine, "duration_minutes", PyNum(15)).v)) :
             \/ Raised(o)
             \/ /\ o.exc = "none"
                /\ LET n == int(o.ret.v)
                   IN IF ~Truthy(o.ret)
                      THEN Returned(o, Goto("menu", Keep), app_ret) /\ Quiet
                      ELSE IF ~n.ok
                      THEN Returned(o, Goto("invalid", Keep), app_ret) /\ Quiet
                      ELSE Edits(o, d, setitem(routine, "duration_minutes", PyNum(n.val)),
                                 Goto("menu", Keep))
    \/ /\ In("routine_editor", "invalid")
       /\ AnyKeyThen(Goto("menu", Keep))
    \/ /\ In("routine_editor", "intensity")
       /\ \E o \in MenuRuns(Some(intensities)) : Raised(o) \/ Sets(o, "intensity")
    \/ /\ In("routine_editor", "url_menu")
       /\ \E o \in MenuRuns(<<PyStr("edit"), PyStr("remove"), PyStr("keep")>>) :
             \/ Raised(o)
             \/ /\ o.ret = PyStr("edit")
                /\ Returned(o, Goto("url", Keep), app_ret)
                /\ Quiet
             \/ /\ o.ret = PyStr("remove")
                /\ Edits(o, d, delitem(routine, "url"), Goto("menu", Keep))
             \/ /\ o.ret \notin {PyStr("edit"), PyStr("remove")}
                /\ Returned(o, Goto("menu", Keep), app_ret)
                /\ Quiet
    \/ /\ In("routine_editor", "url")
       /\ \E o \in PromptRuns(get(routine, "url", PyStr("")).v, TypedNames) :
             Raised(o) \/ Sets(o, "url")
    \/ /\ In("routine_editor", "called")
       /\ Internal(Goto("menu", Keep), app_ret)
       /\ Quiet

\* build_routine_exercises(config, routine): routine is the object the
\* editor below works on; the user adds no exercise beyond MaxCustom;
\* `opened` keeps the exercise list the routine had when the builder was
\* called
build_routine_exercises ==
    LET d == Len(stack) - 1
        routine == routine_of(stack[d])
        current == get(routine, "exercises", PyList(<<>>)).v
        all_exercises == EXERCISES \o config_list("custom_exercises")
        Here == [opened |-> Top.loc.opened]
        Adds(o, routine_ex) ==
            Edits(o, d, setitem(routine, "exercises", PyList(Append(current, routine_ex))),
                  Goto("menu", Here))
        Back(o) == Returned(o, Goto("menu", Here), app_ret) /\ Quiet
    IN
    \/ /\ In("build_routine_exercises", "start")
       /\ Internal(Goto("menu", Here), app_ret)
       /\ Quiet
    \/ /\ In("build_routine_exercises", "menu")
       /\ \E o \in MenuRuns(<<PyStr("library"), PyStr("custom")>>
                            \o (IF Len(current) > 0 THEN <<PyStr("remove")>> ELSE <<>>)
                            \o <<PyStr("done"), PyStr("cancel")>>) :
             \/ Raised(o)
             \/ /\ o.ret \in {PyNone, PyStr("cancel")}
                /\ Edits(o, d, setitem(routine, "exercises", PyList(<<>>)), Return)
             \/ /\ o.ret = PyStr("done")
                /\ Returned(o, Return, app_ret)
                /\ Quiet
             \/ /\ o.ret = PyStr("remove")
                /\ Edits(o, d, setitem(routine, "exercises",
                                       PyList(SubSeq(current, 1, Len(current) - 1))),
                         Goto("menu", Here))
             \/ /\ o.ret \in {PyStr("library"), PyStr("custom")}
                /\ Len(current) < MaxCustom
                /\ Returned(o, Goto(IF o.ret = PyStr("library") THEN "library"
                                    ELSE "custom_name", Here), app_ret)
                /\ Quiet
    \/ /\ In("build_routine_exercises", "library")
       /\ LET Then(o) == IF Truthy(o.ret) THEN Goto("library_count", [opened |-> Top.loc.opened, selected |-> o.ret])
                         ELSE Goto("menu", Here)
          IN Asks(MenuRuns(all_exercises), Then)
    \/ /\ In("build_routine_exercises", "library_count")
       /\ LET picked == Top.loc.selected
              named == PyDict([name |-> picked.v["name"]])
          IN \E o \in NumberRuns(str(picked.v["count"].v)) :
                \/ Raised(o)
                \/ /\ o.exc = "none"
                   /\ LET n == int(o.ret.v)
                          counted == setitem(named, "count", PyNum(n.val))
                      IN IF Truthy(o.ret) /\ n.ok
                         THEN Adds(o, IF Truthy(get(picked, "unit", PyNone))
                                      THEN setitem(counted, "unit", picked.v["unit"])
                                      ELSE counted)
                         ELSE Back(o)
    \/ /\ In("build_routine_exercises", "custom_name")
       /\ LET Then(o) == IF Truthy(o.ret) THEN Goto("custom_unit", [opened |-> Top.loc.opened, name |-> o.ret])
                         ELSE Goto("menu", Here)
          IN Asks(PromptRuns("", TypedNames), Then)
    \/ /\ In("build_routine_exercises", "custom_unit")
       /\ LET Then(o) == IF o.ret # PyNone
                         THEN Goto("custom_count", [opened |-> Top.loc.opened, name |-> Top.loc.name,
                                                unit |-> o.ret])
                         ELSE Goto("menu", Here)
          IN Asks(MenuRuns(<<PyStr("reps"), PyStr("seconds"), PyStr("each side")>>), Then)
    \/ /\ In("build_routine_exercises", "custom_count")
       /\ \E o \in NumberRuns("10") :
             \/ Raised(o)
             \/ /\ o.exc = "none"
                /\ LET n == int(o.ret.v)
                       counted == PyDict([name |-> Top.loc.name, count |-> PyNum(n.val)])
                   IN IF Truthy(o.ret) /\ n.ok
                      THEN Adds(o, IF Top.loc.unit # PyStr("reps")
                                   THEN setitem(counted, "unit", Top.loc.unit)
                                   ELSE counted)
                      ELSE Back(o)

\* edit_custom_routine(config, idx); `opened` keeps the value custom[idx]
\* had when the editor was opened
edit_custom_routine ==
    LET idx == Top.loc.idx
    IN
    \/ /\ In("edit_custom_routine", "start")
       /\ Internal(IF idx >= Len(config_list("custom_routines")) THEN Return
                   ELSE Call("called",
                             [idx |-> idx,
                              opened |-> config_list("custom_routines")[idx + 1]],
                             "routine_editor", [is_new |-> FALSE, idx |-> idx]), app_ret)
       /\ Quiet
    \/ /\ In("edit_custom_routine", "called")
       /\ IF app_ret = PyStr("DELETE")
          THEN /\ Internal(Goto("press_any_key", Top.loc), PyNone)
               /\ Saved(config_pop("custom_routines", idx))
          ELSE IF app_ret # PyNone
               THEN /\ Internal(Return, PyNone)
                    /\ Saved(config_put("custom_routines", idx, app_ret))
               ELSE Internal(Return, PyNone) /\ Quiet
    \/ /\ In("edit_custom_routine", "press_any_key")
       /\ AnyKeyThen(Return)

\* the session: main_menu() and every handler under it
AppNext ==
    \/ main_menu
    \/ show_stats
    \/ show_history
    \/ log_exercise
    \/ log_routine
    \/ suggest_exercise
    \/ show_config
    \/ configure_theme
    \/ configure_equipment
    \/ configure_intensity
    \/ configure_pattern
    \/ configure_categories
    \/ configure_custom_exercises
    \/ add_custom_exercise
    \/ edit_custom_exercise
    \/ configure_custom_routines
    \/ add_custom_routine
    \/ routine_editor
    \/ build_routine_exercises
    \/ edit_custom_routine

\* ------------------------------------------------------- storage at rest
\* fresh storage: no document, no table, no row
StoreIdle ==
    /\ now = 0
    /\ today = 1
    /\ utc_today = 1
    /\ EXERCISES = <<>>
    /\ config_file = Absent
    /\ day_file = Absent
    /\ pending_file = Absent
    /\ last_suggested_file = Absent
    /\ tables_exist = FALSE
    /\ exercises_rows = <<>>
    /\ routine_rows = <<>>
    /\ log_file = Absent
    /\ notifications = <<>>
    /\ cmd = "none"
    /\ cmd_arg = PyNone
    /\ cmd_out = <<>>
    /\ cmd_exc = "none"
    /\ cmd_ret = PyNone
    /\ pre = Absent
    /\ latest = Absent
    /\ suggested = 0

\* main_menu() has not been called
AppIdle ==
    /\ app_pc = "idle"
    /\ app_exc = "none"
    /\ stack = <<>>
    /\ app_config = PyNone
    /\ app_ret = PyNone
    /\ app_ev = [fn |-> "none", act |-> "none", ret |-> PyNone]

\* no widget is open and no session runs
WidgetsIdle ==
    PROMPT_TOOLKIT_AVAILABLE = TRUE /\ MenuIdle /\ PromptIdle /\ TabsIdle /\ AppIdle

\* a menu has been constructed, in either mode of the module
InitMenu ==
    PROMPT_TOOLKIT_AVAILABLE \in BOOLEAN /\ MenuInit /\ PromptIdle /\ TabsIdle
        /\ StoreIdle /\ AppIdle

SpecMenu == InitMenu /\ [][MenuNext]_vars

\* a prompt has been constructed
InitPrompt ==
    PROMPT_TOOLKIT_AVAILABLE \in BOOLEAN /\ PromptInit /\ MenuIdle /\ TabsIdle
        /\ StoreIdle /\ AppIdle

SpecPrompt == InitPrompt /\ [][PromptNext]_vars

\* a tabbed view has been constructed
InitTabs ==
    PROMPT_TOOLKIT_AVAILABLE \in BOOLEAN /\ TabsInit /\ MenuIdle /\ PromptIdle
        /\ StoreIdle /\ AppIdle

SpecTabs == InitTabs /\ [][TabsNext]_vars

\* save_config and load_config called by a caller that holds any
\* configuration document, on storage with or without a configuration
InitConfig ==
    /\ WidgetsIdle
    /\ now = 0
    /\ today = 1
    /\ utc_today = 1
    /\ EXERCISES = <<>>
    /\ config_file \in {Absent, json_dumps(PyDict([theme |-> PyStr("matrix")]))}
    /\ day_file = Absent
    /\ pending_file = Absent
    /\ last_suggested_file = Absent
    /\ tables_exist = FALSE
    /\ exercises_rows = <<>>
    /\ routine_rows = <<>>
    /\ log_file = Absent
    /\ notifications = <<>>
    /\ cmd = "none"
    /\ cmd_arg = PyNone
    /\ cmd_out = <<>>
    /\ cmd_exc = "none"
    /\ cmd_ret = PyNone
    /\ pre \in { [config |-> c, after |-> "none"] : c \in ConfigDocs }
    /\ latest = Absent
    /\ suggested = 0

SpecConfig == InitConfig /\ [][ConfigNext]_vars

\* the hook commands run on storage with or without tables, with any of
\* the bundled catalogues and configurations
InitHooks ==
    /\ WidgetsIdle
    /\ now = 0
    /\ today = 1
    /\ utc_today \in UtcDates(today)
    /\ EXERCISES \in HookCatalogues
    /\ config_file \in {Absent} \cup { json_dumps(c) : c \in HookConfigs }
    /\ day_file = Absent
    /\ pending_file = Absent
    /\ last_suggested_file = Absent
    /\ tables_exist \in BOOLEAN
    /\ exercises_rows = <<>>
    /\ routine_rows = <<>>
    /\ log_file = Absent
    /\ notifications = <<>>
    /\ cmd = "none"
    /\ cmd_arg = PyNone
    /\ cmd_out = <<>>
    /\ cmd_exc = "none"
    /\ cmd_ret = PyNone
    /\ pre = Absent
    /\ latest = Absent
    /\ suggested = 0

SpecHooks == InitHooks /\ [][HooksNext]_vars

\* the day commands run on fresh storage, over several days
InitDay == WidgetsIdle /\ StoreIdle

SpecDay == InitDay /\ [][DayNext]_vars

\* the two commands that notify, with the commands that set them up, on
\* storage with or without tables
NotifyNext ==
    \/ cmd_hook_suggest
    \/ cmd_hook_log_complete
    \/ cmd_queue_add
    \/ cmd_queue_trigger
    \/ init_db

InitNotify ==
    /\ WidgetsIdle
    /\ now = 0
    /\ today = 1
    /\ utc_today = 1
    /\ EXERCISES \in BundledCatalogues
    /\ config_file = Absent
    /\ day_file = Absent
    /\ pending_file = Absent
    /\ last_suggested_file = Absent
    /\ tables_exist \in BOOLEAN
    /\ exercises_rows = <<>>
    /\ routine_rows = <<>>
    /\ log_file = Absent
    /\ notifications = <<>>
    /\ cmd = "none"
    /\ cmd_arg = PyNone
    /\ cmd_out = <<>>
    /\ cmd_exc = "none"
    /\ cmd_ret = PyNone
    /\ pre = Absent
    /\ latest = Absent
    /\ suggested = 0

SpecNotify == InitNotify /\ [][NotifyNext]_vars

\* the configuration commands run on storage without a configuration, with
\* one that sets part of quiet_hours, and with one that holds an exercise
InitCli ==
    /\ WidgetsIdle
    /\ now = 0
    /\ today = 1
    /\ utc_today = 1
    /\ EXERCISES = <<>>
    /\ config_file \in
          {Absent,
           json_dumps(PyDict([quiet_hours |-> PyDict([enabled |-> PyBool(FALSE),
                                                      start |-> PyStr("23:00")])])),
           json_dumps(PyDict([custom_exercises |-> PyList(<<CustomExercise>>)]))}
    /\ day_file = Absent
    /\ pending_file = Absent
    /\ last_suggested_file = Absent
    /\ tables_exist = FALSE
    /\ exercises_rows = <<>>
    /\ routine_rows = <<>>
    /\ log_file = Absent
    /\ notifications = <<>>
    /\ cmd = "none"
    /\ cmd_arg = PyNone
    /\ cmd_out = <<>>
    /\ cmd_exc = "none"
    /\ cmd_ret = PyNone
    /\ pre = Absent
    /\ latest = Absent
    /\ suggested = 0

SpecCli == InitCli /\ [][CliNext]_vars

\* a routine a user has added
CustomRoutine ==
    PyDict([id |-> PyStr("a1b2c3d4"), name |-> PyStr("desk break"),
            type |-> PyStr("custom"), duration_minutes |-> PyNum(15),
            intensity |-> PyStr("moderate"), custom |-> PyBool(TRUE)])

\* records of an earlier day
OldExerciseRow ==
    [name |-> PyStr("pushups"), count |-> PyNum(10), unit |-> PyStr("reps"),
     category |-> PyStr("upper"), intensity |-> PyStr("moderate"),
     task_description |-> PyStr("hook"), completed |-> TRUE,
     timestamp |-> 0, logged_on |-> 0]
OldRoutineRow ==
    [routine_id |-> PyStr("stretch-10"), routine_name |-> PyStr("Morning Stretch"),
     routine_type |-> PyStr("custom"), duration_minutes |-> PyNum(10),
     intensity |-> PyStr("moderate"), task_description |-> PyStr("manual"),
     timestamp |-> 0, logged_on |-> 0]

\* main_menu() is about to be called, in either mode of the module, on
\* fresh storage or on storage that earlier sessions have left a
\* configuration and records in
InitApp ==
    /\ PROMPT_TOOLKIT_AVAILABLE \in BOOLEAN
    /\ MenuIdle /\ PromptIdle /\ TabsIdle /\ AppIdle
    /\ now = 0
    /\ today = 1
    /\ utc_today = 1
    /\ EXERCISES \in BundledCatalogues
    /\ config_file \in
          {Absent,
           json_dumps(PyDict([equipment |-> PyList(<<PyStr("mat")>>),
                              custom_exercises |-> PyList(<<CustomExercise>>),
                              custom_routines |-> PyList(<<CustomRoutine>>)]))}
    /\ day_file = Absent
    /\ pending_file = Absent
    /\ last_suggested_file = Absent
    /\ tables_exist = (config_file # Absent)
    /\ exercises_rows = IF config_file # Absent THEN <<OldExerciseRow>> ELSE <<>>
    /\ routine_rows = IF config_file # Absent THEN <<OldRoutineRow>> ELSE <<>>
    /\ log_file = Absent
    /\ notifications = <<>>
    /\ cmd = "none"
    /\ cmd_arg = PyNone
    /\ cmd_out = <<>>
    /\ cmd_exc = "none"
    /\ cmd_ret = PyNone
    /\ pre = Absent
    /\ latest = Absent
    /\ suggested = 0

SpecApp == InitApp /\ [][AppNext]_vars


\* ------------------------------------------------------------ properties
KeyDriven == PROMPT_TOOLKIT_AVAILABLE
MenuOpen == menu_pc \in {"active", "input", "returned", "raised"}
Indices == 0..(Len(items) - 1)
UpKeys == {"up", "k"}
DownKeys == {"down", "j"}
CancelKeys == {"escape", "q"}

\* C1: in a key-driven menu over N >= 1 items the cursor stays in [0, N-1]
\* after any sequence of up/k and down/j events; down at N-1 leaves it at
\* N-1 and up at 0 leaves it at 0.
C1_CursorClamped ==
    (MenuOpen /\ Len(items) >= 1) =>
        /\ cursor \in Indices
        /\ (last_key \in DownKeys /\ cursor_before = Len(items) - 1)
               => cursor = Len(items) - 1
        /\ (last_key \in UpKeys /\ cursor_before = 0) => cursor = 0

\* down was pressed on the last of several items
C1_DownAtLast ==
    /\ Len(items) >= 2
    /\ last_key = "j"
    /\ cursor_before = Len(items) - 1
    /\ cursor = Len(items) - 1

\* C2: in single-select mode Enter makes run() return the value (third
\* component) of the item under the cursor, and item 0's value when Enter
\* is the first key pressed.
C2_EnterReturnsCursorValue ==
    (KeyDriven /\ ~multi_select /\ menu_pc = "returned" /\ last_key = "enter") =>
        /\ cursor \in Indices
        /\ menu_ret = items[cursor + 1][3]
        /\ key_before = "none" => menu_ret = items[1][3]

\* Enter after moving down to an item whose value differs from item 0's
C2_EnterAfterMove ==
    /\ KeyDriven /\ ~multi_select /\ menu_pc = "returned"
    /\ last_key = "enter" /\ key_before \in DownKeys
    /\ cursor >= 1
    /\ items[cursor + 1][3] # items[1][3]

\* C3: in a single-select menu the object run() returns on Escape/q differs
\* from the value of every item of the list, item 0 included, and from
\* what Enter returns.
C3_CancelDistinct ==
    (KeyDriven /\ ~multi_select /\ menu_pc = "returned") =>
        /\ last_key \in CancelKeys =>
               \A i \in 1..Len(items) : menu_ret # items[i][3]
        /\ last_key = "enter" => menu_ret # PyNone

\* Escape pressed on a list of several items after moving
C3_CancelAfterMove ==
    /\ KeyDriven /\ ~multi_select /\ menu_pc = "returned"
    /\ last_key = "escape" /\ key_before \in DownKeys
    /\ Len(items) >= 2

\* C4: in multi-select mode Enter with an empty selection set returns an
\* empty set, which is not the sentinel, and Escape/q returns the sentinel
\* whatever the selection set contains.
C4_EmptyIsNotCancel ==
    (KeyDriven /\ multi_select /\ menu_pc = "returned") =>
        /\ (last_key = "enter" /\ selected = {}) =>
               menu_ret.kind = "set" /\ menu_ret.v = {} /\ menu_ret # PyNone
        /\ last_key \in CancelKeys => menu_ret = PyNone

\* Enter on a selection that a toggle has just emptied
C4_EnterOnEmptied ==
    /\ KeyDriven /\ multi_select /\ menu_pc = "returned"
    /\ last_key = "enter" /\ key_before = "space"
    /\ cursor \in Indices /\ Hashable(items[cursor + 1][3])
    /\ menu_exc = "none"
    /\ selected = {}

\* C5: in multi-select mode Space flips the membership of the value of the
\* item under the cursor (a value usable as a set member) and of nothing
\* else, and leaves the cursor where it was; a second Space at the same
\* cursor restores the set; in single-select mode Space changes nothing.
C5_SpaceFlipsOne ==
    /\ [](  (KeyDriven /\ last_key = "space" /\ cursor \in Indices) =>
               /\ cursor = cursor_before
               /\ (multi_select /\ Hashable(items[cursor + 1][3])) =>
                     LET val == items[cursor + 1][3]
                     IN /\ val \in selected <=> val \notin selected_before
                        /\ selected \ {val} = selected_before \ {val}
               /\ ~multi_select =>
                     /\ selected = selected_before
                     /\ menu_pc = "active"
                     /\ result = PyNone /\ ~cancelled /\ menu_ret = PyNone)
    /\ [][(toggle /\ last_key = "space") => selected' = selected_before]_vars

\* Space pressed twice on an item that was selected when the menu opened
C5_SpaceTwice ==
    /\ KeyDriven /\ multi_select /\ menu_pc = "active"
    /\ last_key = "space" /\ key_before = "space"
    /\ cursor \in Indices
    /\ items[cursor + 1][3] \in selected
    /\ Cardinality(selected) >= 2

\* the index of an item as a Python int
PyIndex(i) == [kind |-> "int", v |-> i]

\* C6: when the value under the cursor is not usable as a set member, Space
\* raises nothing and flips the membership of the item's index in the
\* selection set, and Enter returns the set of selected indices.
C6_IndexFallback ==
    (KeyDriven /\ multi_select /\ last_key = "space" /\ cursor \in Indices
        /\ ~Hashable(items[cursor + 1][3])) =>
        /\ menu_exc = "none"
        /\ PyIndex(cursor) \in selected <=> PyIndex(cursor) \notin selected_before

\* the decimal digit of a number below ten
DigitChar(k) ==
    CASE k = 0 -> "0" [] k = 1 -> "1" [] k = 2 -> "2" [] k = 3 -> "3"
      [] k = 4 -> "4" [] k = 5 -> "5" [] k = 6 -> "6" [] k = 7 -> "7"
      [] k = 8 -> "8" [] k = 9 -> "9"

AllIn(s, S) == \A i \in 1..Len(s) : s[i] \in S

\* the line is a numeral of k: blanks, an optional plus sign, zeros, the
\* digit of k, blanks
Denotes(line, k) ==
    \E a \in 0..Len(line) : \E b \in a..Len(line) : \E c \in b..Len(line) :
        /\ c < Len(line)
        /\ AllIn(SubSeq(line, 1, a), {" "})
        /\ SubSeq(line, a + 1, b) \in {<<>>, <<"+">>}
        /\ AllIn(SubSeq(line, b + 1, c), {"0"})
        /\ line[c + 1] = DigitChar(k)
        /\ AllIn(SubSeq(line, c + 2, Len(line)), {" "})

Blank(line) == AllIn(line, {" "})

\* C7: the line-based fallback of a single-select menu over N >= 1 items
\* returns item 0's value for empty input, item k's value (1-based) for a
\* line that parses as an integer k in 1..N, and the sentinel for every
\* other line.
C7_FallbackChoice ==
    (~KeyDriven /\ ~multi_select /\ Len(items) >= 1
        /\ menu_pc \in {"returned", "raised"}) =>
        /\ menu_pc = "returned"
        /\ last_key = "line" =>
              /\ Blank(menu_input) => menu_ret = items[1][3]
              /\ \A k \in 1..Len(items) :
                    Denotes(menu_input, k) => menu_ret = items[k][3]
              /\ (~Blank(menu_input)
                     /\ \A k \in 1..Len(items) : ~Denotes(menu_input, k))
                    => menu_ret = PyNone

\* C8: for every item list, lists of dict records included, a run of the
\* line-based fallback menu ends as a run of the key-driven menu can end:
\* by returning an item value, a selection set or the sentinel, never in
\* an error.
C8_FallbackNeverRaises ==
    (~KeyDriven /\ Len(items) >= 1 /\ MenuOpen) =>
        /\ menu_pc # "raised"
        /\ menu_pc = "returned" =>
              IF multi_select THEN menu_ret.kind \in {"set", "None"}
              ELSE menu_ret = PyNone \/ \E i \in 1..Len(items) : menu_ret = items[i][3]

\* C9: InputPrompt.run() returns the default when the submitted line is
\* empty, and the sentinel, never the default, on Escape, end-of-input or
\* interrupt, in the key-driven and in the fallback mode.
C9_PromptContract ==
    ip_pc = "returned" =>
        /\ (ip_last = "enter" /\ ip_buffer = <<>>) => ip_ret = PyStr(ip_default)
        /\ ip_last \in {"escape", "EOFError", "KeyboardInterrupt"} => ip_ret = PyNone

\* lines of TabLines that ask for the previous and for the next tab
PrevLines == { <<"p">>, <<"P">>, <<"l", "e", "f", "t">>, <<"h">> }
NextLines == { <<"n">>, <<" ", "N", " ">>, <<"r", "i", "g", "h", "t">>,
               <<"l">>, <<"L">> }
PrevEvent == tab_last \in {"left", "h"} \/ (tab_last = "line" /\ tab_input \in PrevLines)
NextEvent ==
    tab_last \in {"right", "l", "tab"} \/ (tab_last = "line" /\ tab_input \in NextLines)

\* C10: in a TabbedView with N >= 1 tabs current_tab stays in [0, N-1];
\* previous from tab 0 yields tab N-1 and next from tab N-1 yields tab 0,
\* in the key-driven view and in the line-based fallback.
C10_TabsWrap ==
    Len(tabs) >= 1 =>
        /\ current_tab \in 0..(Len(tabs) - 1)
        /\ (PrevEvent /\ tab_before = 0) => current_tab = Len(tabs) - 1
        /\ (NextEvent /\ tab_before = Len(tabs) - 1) => current_tab = 0

\* previous asked at tab 0 of several tabs, in the fallback view
C10_PrevAtFirst ==
    /\ ~KeyDriven /\ Len(tabs) >= 3
    /\ PrevEvent /\ tab_before = 0
    /\ current_tab = Len(tabs) - 1

Signals == {"EOFError", "KeyboardInterrupt"}

\* the states of the spec's widget state machine, read off a menu run
MenuWaiting == menu_pc \in {"constructed", "active", "input"}
MenuConfirmed ==
    /\ menu_pc = "returned"
    /\ IF KeyDriven THEN last_key = "enter" /\ ~cancelled
       ELSE last_key = "line" /\ (multi_select \/ menu_ret # PyNone)
MenuCancelled ==
    /\ menu_pc = "returned"
    /\ menu_ret = PyNone
    /\ IF KeyDriven THEN last_key \in CancelKeys /\ cancelled
       ELSE last_key \in Signals \cup {"line"}

\* C11: a menu run starts active; every step that leaves active ends the
\* run in exactly one of confirmed (finalize key) or cancelled (cancel
\* key); after that no event changes the cursor, the selection or the
\* returned object.
C11_StateMachine ==
    [][ /\ (MenuWaiting /\ ~MenuWaiting') =>
              /\ MenuConfirmed' \/ MenuCancelled'
              /\ ~(MenuConfirmed' /\ MenuCancelled')
        /\ ~MenuWaiting => UNCHANGED <<cursor, selected, menu_ret, menu_pc>>
      ]_vars

\* C12: end-of-input or an interrupt while the menu waits never leaves
\* run() as an exception, and when it ends the run, run() returns the
\* sentinel as it does on explicit cancellation.
C12_InterruptIsCancel ==
    last_key \in Signals =>
        /\ menu_pc # "raised"
        /\ menu_pc = "returned" => menu_ret = PyNone

\* ------------------------------------------------------------- day state
DayCmds == {"day", "morning --status", "morning --complete", "morning --skip", "queue", "queue --trigger",
            "queue --cancel"}
\* the last command called load_day_state()
DayLoaded == cmd \in DayCmds /\ cmd_ret # PyNone
StoredDate(file) == IF file = Absent THEN PyNone ELSE get(json_loads(file), "date", PyNone)
\* the stored date differed from the date the last command ran on
StaleBefore == pre.day # Absent /\ StoredDate(pre.day) # isoformat(pre.today)
\* the defaults with date d
IsFreshDay(state, d) ==
    /\ DOMAIN state.v = {"date", "morning", "workout_queue", "deep_work_start"}
    /\ state.v["date"] = isoformat(d)
    /\ state.v["morning"] = PyDict([status |-> PyStr("pending"), completed_at |-> PyNone,
                                    routine_used |-> PyNone])
    /\ state.v["workout_queue"].v["queued"] = PyBool(FALSE)
    /\ \A k \in DOMAIN state.v["workout_queue"].v \ {"queued"} :
          state.v["workout_queue"].v[k] = PyNone
    /\ state.v["deep_work_start"] = PyNone

\* C14: a load on a date other than the stored one returns the defaults
\* with date = today and persists that state; after every load the
\* returned state and the stored document carry the date of the load.
C14_DayReset ==
    DayLoaded =>
        /\ get(cmd_ret, "date", PyNone) = isoformat(pre.today)
        /\ StoredDate(day_file) = isoformat(pre.today)
        /\ StaleBefore =>
              /\ IsFreshDay(cmd_ret, pre.today)
              /\ cmd = "day" => json_loads(day_file) = cmd_ret

\* a load on the day after the morning routine was completed and a
\* workout queued
C14_LoadNextDay ==
    /\ cmd = "day"
    /\ StaleBefore
    /\ json_loads(pre.day).v["morning"].v["status"] = PyStr("completed")
    /\ json_loads(pre.day).v["workout_queue"].v["queued"] = PyBool(TRUE)
    /\ StoredDate(day_file) = isoformat(pre.today)

\* --------------------------------------------------------- configuration
\* C15: save_config(c) then load_config(), for c lacking some top-level
\* keys, returns c's value under every key of c and the DEFAULT_CONFIG
\* value under every other key.
C15_ConfigRoundTrip ==
    (cmd = "load_config" /\ pre.after = "save_config"
        /\ DOMAIN pre.config.v # ConfigKeys) =>
        /\ cmd_ret.kind = "dict"
        /\ DOMAIN cmd_ret.v = ConfigKeys \cup DOMAIN pre.config.v
        /\ \A k \in DOMAIN cmd_ret.v :
              cmd_ret.v[k] = IF k \in DOMAIN pre.config.v THEN pre.config.v[k]
                             ELSE DEFAULT_CONFIG.v[k]

\* a document with enabled = false and no theme was saved and loaded
C15_PartialRoundTrip ==
    /\ cmd = "load_config"
    /\ pre.after = "save_config"
    /\ DOMAIN pre.config.v = {"enabled", "categories"}
    /\ pre.config.v["enabled"] = PyBool(FALSE)
    /\ cmd_ret.v["theme"] = PyStr("fire")

\* ------------------------------------------------------------------ hooks
Config == load_config_result
Disabled == ~Truthy(Config.v["enabled"])
\* the last command ran less than cooldown_minutes after the last
\* successful suggestion
WithinCooldown ==
    /\ pre.last_suggested # Absent
    /\ pre.now - fromisoformat(pre.last_suggested) < Config.v["cooldown_minutes"].v * 60
Requires(e) ==
    IF has(e, "equipment")
    THEN { e.v["equipment"].v[i] : i \in 1..Len(e.v["equipment"].v) } ELSE {}
Owned ==
    { Config.v["equipment"].v[i] : i \in 1..Len(Config.v["equipment"].v) }
        \cup { PyStr("none") }
Passes(e) == Requires(e) = {} \/ Requires(e) \cap Owned # {}
Catalogue ==
    { EXERCISES[i] : i \in 1..Len(EXERCISES) } \cup
    { Config.v["custom_exercises"].v[i] : i \in 1..Len(Config.v["custom_exercises"].v) }

\* C16: suggest while disabled or within the cooldown prints nothing and
\* leaves the pending document and the last-suggested timestamp as they
\* were.
C16_SuggestNoOp ==
    (cmd = "suggest" /\ (Disabled \/ WithinCooldown)) =>
        /\ cmd_out = <<>>
        /\ pending_file = pre.pending
        /\ last_suggested_file = pre.last_suggested

\* a second suggest, some time after the first and within its cooldown
C16_SecondSuggest ==
    /\ cmd = "suggest"
    /\ WithinCooldown
    /\ pre.now > fromisoformat(pre.last_suggested)
    /\ pre.pending # Absent
    /\ cmd_out = <<>>

\* C17: suggest while enabled, outside any cooldown and with an exercise
\* passing the equipment filter writes a pending document holding the
\* suggested exercise and the task context given (the word task when none
\* or an empty one is given), records the time and prints one non-empty
\* line.
C17_SuggestWrites ==
    (cmd = "suggest" /\ ~Disabled /\ ~WithinCooldown /\ \E e \in Catalogue : Passes(e)) =>
        /\ pending_file # Absent
        /\ LET pending == json_loads(pending_file)
           IN /\ pending.v["type"] = PyStr("exercise")
              /\ pending.v["data"] \in Catalogue
              /\ Passes(pending.v["data"])
              /\ pending.v["task_description"] =
                    (IF cmd_arg \in {PyNone, PyStr("")} THEN PyStr("task") ELSE cmd_arg)
              /\ pending.v["suggested_at"] = isoformat(pre.now)
              /\ cmd_out = <<pending.v["exercise"]>>
              /\ Len(pending.v["exercise"].v) > 0
        /\ last_suggested_file = isoformat(pre.now)

\* suggest --task "writing tests" with no prior suggestion
C17_SuggestWithTask ==
    /\ cmd = "suggest"
    /\ cmd_arg = PyStr("writing tests")
    /\ pre.last_suggested = Absent
    /\ pending_file # Absent
    /\ Len(cmd_out) = 1

\* C18: the pending document is absent or is exactly the most recent
\* successful suggestion not yet consumed by log-complete or log-skip.
C18_OnePending ==
    pending_file = IF latest = Absent THEN Absent ELSE json_dumps(latest)

\* a successful suggest found an earlier suggestion still pending
C18_Replaced ==
    /\ cmd = "suggest"
    /\ cmd_out # <<>>
    /\ pre.pending # Absent
    /\ pre.pending # pending_file
    /\ latest # Absent

\* the last command was log-complete and found a pending exercise
CompletedPending ==
    /\ cmd = "log-complete"
    /\ pre.pending # Absent
    /\ json_loads(pre.pending).v["type"] = PyStr("exercise")

\* C19: log-complete with a pending exercise inserts exactly one record
\* with the name, count, unit, category and intensity of the suggestion,
\* fires exactly one notification and leaves no pending document.
C19_LogCompleteRecords ==
    CompletedPending =>
        LET data == json_loads(pre.pending).v["data"]
            row == exercises_rows[Len(exercises_rows)]
        IN /\ Len(exercises_rows) = Len(pre.rows) + 1
           /\ SubSeq(exercises_rows, 1, Len(pre.rows)) = pre.rows
           /\ row.name = data.v["name"]
           /\ row.count = data.v["count"]
           /\ row.unit = get(data, "unit", PyStr("reps"))
           /\ row.category = data.v["category"]
           /\ row.intensity = data.v["intensity"]
           /\ Len(notifications) = Len(pre.notifications) + 1
           /\ pending_file = Absent

\* C20: log-skip leaves no pending document and changes nothing else.
C20_SkipOnlyDeletes ==
    cmd = "log-skip" =>
        /\ pending_file = Absent
        /\ exercises_rows = pre.rows
        /\ routine_rows = pre.routines
        /\ log_file = pre.log
        /\ notifications = pre.notifications
        /\ last_suggested_file = pre.last_suggested
        /\ config_file = pre.config
        /\ day_file = pre.day
        /\ tables_exist = pre.tables
        /\ cmd_out = <<>>
        /\ cmd_exc = "none"

\* log-skip found a pending suggestion
C20_SkipPending ==
    /\ cmd = "log-skip"
    /\ pre.pending # Absent
    /\ pre.last_suggested # Absent
    /\ pending_file = Absent

\* the widget outcomes that are a cancellation: Escape, or end-of-input / an
\* interrupt while the widget waits
Cancelling == {"cancel", "interrupt"}
LoopOver == app_pc \in {"ended", "crashed"}

\* C13: cancelling (Escape / interrupt) a widget that an action handler
\* opened gives control back to the handler's caller and never ends the
\* main menu loop; the loop ends only on an outcome of the main menu widget
\* itself, its cancellation or its returning 'quit'.
C13_CancelIsLocal ==
    /\ (app_ev.act \in Cancelling /\ app_ev.fn # "main_menu") => app_pc = "running"
    /\ LoopOver => app_ev.fn = "main_menu"

\* new holds every row of old, in the same place and unmodified
Kept(old, new) == Len(old) <= Len(new) /\ SubSeq(new, 1, Len(old)) = old

LoggedOn(rows, d) == SelectSeq(rows, LAMBDA r : r.completed /\ r.logged_on = d)
InCategory(rows, c) == SelectSeq(rows, LAMBDA r : r.category = c)
\* the sum of the reps a category breakdown gives for the categories in K
RECURSIVE SumReps(_, _)
SumReps(breakdown, K) ==
    IF K = {} THEN 0
    ELSE LET c == CHOOSE x \in K : TRUE
         IN breakdown.v[c].v["reps"].v + SumReps(breakdown, K \ {c})

\* C22: stats run on local date D reports exercises = the number and
\* reps = the sum of counts of the completed exercise records logged on
\* local date D, for each category of those records its reps, and the
\* per-category reps sum to reps; so a record that log-complete has just
\* inserted is counted.
C22_StatsCountsToday ==
    cmd = "stats" =>
        LET logged == LoggedOn(exercises_rows, pre.today)
            stats == cmd_out[1]
            per_category == stats.v["categories"]
            reps_in(c) == per_category.v[c].v["reps"].v
        IN /\ stats.v["exercises"] = PyNum(Len(logged))
           /\ stats.v["reps"] = PyNum(sum_count(logged))
           /\ \A i \in 1..Len(logged) :
                 /\ has(per_category, logged[i].category.v)
                 /\ reps_in(logged[i].category.v)
                       = sum_count(InCategory(logged, logged[i].category))
           /\ SumReps(per_category, DOMAIN per_category.v) = stats.v["reps"].v

\* the workout queue in DAY_FILE, and the one the command found for today
StoredQueue == json_loads(day_file).v["workout_queue"]
LoadedQueue == get(cmd_ret, "workout_queue", PyDict(<<>>))
QueueAdded == cmd = "queue" /\ cmd_out[1].v["success"] = PyBool(TRUE)
TriggeredQueued == cmd = "queue --trigger" /\ Truthy(get(LoadedQueue, "queued", PyNone))

\* C23: `queue R` for a routine R of the catalogue leaves
\* workout_queue.queued = true with no trigger time; a `queue --trigger`
\* that finds that queue on the same day leaves queued = true and a
\* non-null triggered_at in the day state, and fires exactly one
\* notification.
C23_QueueThenTrigger ==
    /\ QueueAdded =>
          /\ StoredQueue.v["queued"] = PyBool(TRUE)
          /\ StoredQueue.v["triggered_at"] = PyNone
    /\ TriggeredQueued =>
          /\ StoredQueue.v["queued"] = PyBool(TRUE)
          /\ StoredQueue.v["triggered_at"] # PyNone
          /\ get(json_loads(day_file), "date", PyNone) = isoformat(pre.today)
          /\ Len(notifications) = Len(pre.notifications) + 1

\* the trigger found the routine that `queue stretch-10` queued that day
C23_TriggeredAfterQueue ==
    /\ TriggeredQueued
    /\ LoadedQueue.v["routine_id"] = PyStr("stretch-10")
    /\ LoadedQueue.v["triggered_at"] = PyNone
    /\ get(json_loads(pre.day), "date", PyNone) = isoformat(pre.today)

\* the command handed a notification to the OS, and the notifier failed
NotifierFailed ==
    /\ Len(notifications) = Len(pre.notifications) + 1
    /\ ~notifications[Len(notifications)].shown

Shown(file) ==
    IF file # Absent THEN dict_update(DEFAULT_CONFIG, json_loads(file)) ELSE DEFAULT_CONFIG
SetKeys == key_parts(cmd_arg.key)

\* keys lead through objects, or through nothing, down to a leaf of config
RECURSIVE Addressable(_, _)
Addressable(config, keys) ==
    /\ config.kind = "dict"
    /\ (Len(keys) > 1 /\ has(config, keys[1])) => Addressable(config.v[keys[1]], Tail(keys))
RECURSIVE Leaf(_, _)
Leaf(config, keys) ==
    IF Len(keys) = 1 THEN config.v[keys[1]] ELSE Leaf(config.v[keys[1]], Tail(keys))

\* after and before hold the same keys with the same values at every level
\* along keys, but for the leaf that keys address
RECURSIVE SameExcept(_, _, _)
SameExcept(after, before, keys) ==
    /\ \A k \in (DOMAIN after.v \cup DOMAIN before.v) \ {keys[1]} :
          has(after, k) /\ has(before, k) /\ after.v[k] = before.v[k]
    /\ has(after, keys[1])
    /\ Len(keys) > 1 =>
          SameExcept(after.v[keys[1]], get(before, keys[1], PyDict(<<>>)), Tail(keys))

TrueWords == {"true", "True", "TRUE"}
FalseWords == {"false", "False", "FALSE"}
ValidJson(value) == json_loads_text(value).ok

\* C25: the value config-set stores is the parsed JSON when VALUE is valid
\* JSON, else the boolean when VALUE is the keyword true or false in any
\* letter case, else the raw string.
C25_ValueInterpretation ==
    (cmd = "config-set" /\ cmd_exc = "none") =>
        LET value == cmd_arg.value
            stored == Leaf(json_loads(config_file), SetKeys)
        IN /\ ValidJson(value) => stored = json_loads_text(value).val
           /\ (~ValidJson(value) /\ value.text \in TrueWords) => stored = PyBool(TRUE)
           /\ (~ValidJson(value) /\ value.text \in FalseWords) => stored = PyBool(FALSE)
           /\ (~ValidJson(value) /\ value.text \notin TrueWords \cup FalseWords) =>
                 stored = PyStr(value.text)

\* True, which is no JSON, was stored as the boolean
C25_KeywordStored ==
    /\ cmd = "config-set"
    /\ cmd_arg.value.text = "True"
    /\ SetKeys = <<"theme">>
    /\ json_loads(config_file).v["theme"] = PyBool(TRUE)

\* the command printed an error message
ErrorReported == \E i \in 1..Len(cmd_out) : cmd_out[i] = PyStr("Error: Invalid JSON")

\* C26 as stated: config-set with a malformed JSON value and add-exercise
\* with a malformed JSON document report an error and leave the persisted
\* configuration unchanged.
C26_MalformedRejected ==
    /\ (cmd = "config-set" /\ ~ValidJson(cmd_arg.value)) =>
          ErrorReported /\ config_file = pre.config
    /\ (cmd = "add-exercise" /\ ~ValidJson(cmd_arg)) =>
          ErrorReported /\ config_file = pre.config

\* C26 as amended: add-exercise with a malformed JSON document reports an
\* error, ends normally and leaves the persisted configuration unchanged;
\* config-set with a value that is not valid JSON reports no error and,
\* under a key that addresses a leaf, stores the value as a boolean
\* keyword or as the raw string.
C26_MalformedHandled ==
    /\ (cmd = "add-exercise" /\ ~ValidJson(cmd_arg)) =>
          ErrorReported /\ cmd_exc = "none" /\ config_file = pre.config
    /\ (cmd = "config-set" /\ ~ValidJson(cmd_arg.value)) =>
          /\ ~ErrorReported
          /\ Addressable(Shown(pre.config), SetKeys) =>
                /\ cmd_exc = "none"
                /\ Leaf(json_loads(config_file), SetKeys)
                      \in {PyBool(TRUE), PyBool(FALSE), PyStr(cmd_arg.value.text)}

\* add-exercise rejected a document cut short, on storage that holds a
\* configuration written by a config-set whose value was JSON cut short
C26_BothMalformed ==
    /\ cmd = "add-exercise"
    /\ ~ValidJson(cmd_arg)
    /\ ErrorReported
    /\ config_file # Absent
    /\ config_file = pre.config
    /\ get(json_loads(config_file), "theme", PyNone) = PyStr("[\"mat\"")

\* C27: in every interactive flow that asks for a number, an entry that is
\* no number is reported: the handler that asked shows its notice of the
\* invalid number, having neither left the flow nor gone on with another
\* value.
C27_InvalidNumberReported ==
    app_ev.act = "not_number" => In(app_ev.fn, "invalid")

\* C28: every command run on storage from which documents or the tables of
\* the completion store are absent completes normally, and log-complete
\* run after suggest on such storage records the completion.
C28_AbsentIsDefault ==
    cmd # "none" =>
        /\ cmd_exc = "none"
        /\ (cmd = "log-complete" /\ pre.pending # Absent) =>
               Len(exercises_rows) = Len(pre.rows) + 1

\* the last command was `morning` with exactly the flags of `flags` set
MorningCmds == {"morning --status", "morning --complete", "morning --skip"}
MorningWith(flags) ==
    /\ cmd \in MorningCmds
    /\ { f \in {"status", "complete", "skip"} : cmd_arg[f] } = flags
\* the day state the last command loaded, and the one it left stored
LoadedDay == cmd_ret
StoredDay == json_loads(day_file)

\* C30: `morning` without a flag runs the status handler as
\* `morning --status` does, and neither changes the morning sub-state that
\* was loaded: the report shows it and the stored state keeps it;
\* `--complete` stores status 'completed' with a completion time (and
\* routine_used when a name is given), `--skip` stores status 'skipped';
\* no morning command changes workout_queue or deep_work_start, and a
\* stored state of the same day is the state the command works on.
C30_MorningCommand ==
    cmd \in MorningCmds =>
        LET morning == StoredDay.v["morning"]
        IN /\ (pre.day # Absent /\ ~StaleBefore) => LoadedDay = json_loads(pre.day)
           /\ StoredDay.v["workout_queue"] = LoadedDay.v["workout_queue"]
           /\ StoredDay.v["deep_work_start"] = LoadedDay.v["deep_work_start"]
           /\ (MorningWith({}) \/ MorningWith({"status"})) =>
                 /\ cmd = "morning --status"
                 /\ StoredDay = LoadedDay
                 /\ cmd_out[1].v["status"] = LoadedDay.v["morning"].v["status"]
                 /\ cmd_out[1].v["completed_at"] = LoadedDay.v["morning"].v["completed_at"]
                 /\ cmd_out[1].v["routine_used"] = LoadedDay.v["morning"].v["routine_used"]
                 /\ (pre.day # Absent /\ ~StaleBefore) => day_file = pre.day
           /\ MorningWith({"complete"}) =>
                 /\ morning.v["status"] = PyStr("completed")
                 /\ morning.v["completed_at"] # PyNone
                 /\ Truthy(cmd_arg.routine) => morning.v["routine_used"] = cmd_arg.routine
           /\ MorningWith({"skip"}) => morning.v["status"] = PyStr("skipped")

\* `morning` without a flag reported a morning completed earlier that day,
\* on a day with a queued workout
C30_StatusAfterComplete ==
    /\ MorningWith({})
    /\ cmd_out[1].v["status"] = PyStr("completed")
    /\ Truthy(StoredDay.v["workout_queue"].v["queued"])

\* the custom routines held in memory and in the persisted configuration
HeldRoutines(held) == get(held, "custom_routines", PyList(<<>>))
StoredRoutines(file) ==
    IF file = Absent THEN PyList(<<>>)
    ELSE get(json_loads(file), "custom_routines", PyList(<<>>))
\* routine_editor has returned None to edit_custom_routine after Escape, and
\* to add_custom_routine
EditCancelled ==
    /\ In("edit_custom_routine", "called")
    /\ app_ret = PyNone
    /\ app_ev.fn = "routine_editor"
    /\ app_ev.act = "cancel"
AddCancelled == In("add_custom_routine", "called") /\ app_ret = PyNone
\* the editor of a new routine is open
NewEditorOpen ==
    /\ Running
    /\ \E d \in 1..Len(stack) : stack[d].fn = "routine_editor" /\ stack[d].loc.is_new

\* C31: when the editor of an existing custom routine is cancelled with
\* Escape, the routine held in memory equals the routine as it was when the
\* editor opened, and what edit_custom_routine then does changes neither
\* the routines held nor the routines persisted; while the editor of a new
\* routine is open and when it is cancelled, no routine is added to either.
C31_CancelDiscardsEdits ==
    [][/\ EditCancelled =>
             /\ HeldRoutines(app_config).v[Top.loc.idx + 1] = Top.loc.opened
             /\ HeldRoutines(app_config') = HeldRoutines(app_config)
             /\ StoredRoutines(config_file') = StoredRoutines(config_file)
       /\ (NewEditorOpen \/ AddCancelled) =>
             /\ HeldRoutines(app_config') = HeldRoutines(app_config)
             /\ StoredRoutines(config_file') = StoredRoutines(config_file)]_vars

\* C32: whenever the menu handles Enter or Space the cursor is an index of
\* the item list, for every item list, the empty one included, and neither
\* the key-driven menu nor the fallback menu fails on an index out of
\* range.
C32_CursorIndexesItem ==
    /\ last_key \in {"enter", "space"} => cursor_before \in 0..(Len(items) - 1)
    /\ menu_exc # "IndexError"

\* the routine `queue ID` asked for is in neither the bundled nor the
\* custom routines, by id or by name
UnknownRoutine ==
    /\ cmd = "queue"
    /\ \A i \in 1..Len(all_routines) :
          /\ get(all_routines[i], "id", PyNone) # cmd_arg
          /\ lower(get(all_routines[i], "name", PyStr("")).v) # lower(cmd_arg.v)
\* `queue --trigger` found nothing queued for the day
NothingQueued == cmd = "queue --trigger" /\ ~Truthy(get(LoadedQueue, "queued", PyNone))
Failed == cmd_exc = "none" /\ cmd_out = <<cmd_out[1]>> /\ cmd_out[1].v["success"] = PyBool(FALSE)

\* C33: a queue command that fails (`queue ID` for an unknown routine,
\* `queue --trigger` with nothing queued) reports success = false, fires no
\* notification and leaves the workout_queue and morning sub-states as they
\* are: the unknown routine leaves the stored document untouched, the
\* trigger leaves stored what it loaded for the day.
C33_FailedQueueCommand ==
    /\ UnknownRoutine =>
          /\ Failed
          /\ notifications = pre.notifications
          /\ day_file = pre.day
    /\ NothingQueued =>
          /\ Failed
          /\ notifications = pre.notifications
          /\ json_loads(day_file) = cmd_ret
          /\ (pre.day # Absent /\ ~StaleBefore) => day_file = pre.day

\* `queue yoga` failed on a day whose morning is completed and that has a
\* workout queued
C33_UnknownAfterQueue ==
    /\ UnknownRoutine
    /\ day_file # Absent
    /\ StoredQueue.v["queued"] = PyBool(TRUE)
    /\ json_loads(day_file).v["morning"].v["status"] = PyStr("completed")

\* C34: in every stored day state workout_queue.triggered_at is non-null
\* only if queued is true and queued_at is non-null; queueing a routine,
\* also over a queue that was triggered, leaves triggered_at null; cancel
\* leaves every workout_queue field at its default.
C34_TriggeredOnlyQueued ==
    day_file # Absent =>
        /\ StoredQueue.v["triggered_at"] # PyNone =>
              /\ StoredQueue.v["queued"] = PyBool(TRUE)
              /\ StoredQueue.v["queued_at"] # PyNone
        /\ QueueAdded => StoredQueue.v["triggered_at"] = PyNone
        /\ cmd = "queue --cancel" => StoredQueue = DEFAULT_DAY_STATE.v["workout_queue"]

\* a routine was queued again over a queue that had been triggered, and a
\* triggered queue was rolled over or cancelled
C34_RequeuedAfterTrigger ==
    /\ QueueAdded
    /\ pre.day # Absent
    /\ ~StaleBefore
    /\ json_loads(pre.day).v["workout_queue"].v["triggered_at"] # PyNone

\* C35: in every stored day state morning.completed_at and
\* morning.routine_used are non-null only when morning.status is
\* 'completed'.
C35_CompletionOnlyCompleted ==
    day_file # Absent =>
        LET morning == json_loads(day_file).v["morning"]
        IN (morning.v["completed_at"] # PyNone \/ morning.v["routine_used"] # PyNone)
               => morning.v["status"] = PyStr("completed")

\* C36: log-complete run when no pending document exists inserts no
\* record, appends no log line, fires no notification, leaves no pending
\* document and ends without error; the exercise records, which only
\* log-complete inserts, never outnumber the suggestions made.
C36_NothingPendingNoOp ==
    /\ (cmd = "log-complete" /\ pre.pending = Absent) =>
          /\ exercises_rows = pre.rows
          /\ log_file = pre.log
          /\ notifications = pre.notifications
          /\ pending_file = Absent
          /\ cmd_exc = "none"
    /\ Len(exercises_rows) <= suggested

\* log-complete ran a second time after it had recorded the only pending
\* exercise
C36_CompleteTwice ==
    /\ cmd = "log-complete"
    /\ pre.pending = Absent
    /\ pre.tables
    /\ Len(pre.rows) = 1
    /\ suggested = 1

\* the user has just confirmed the last step of a logging flow: submitted
\* the count in log exercise, chosen 'Log completion' in log routine, or
\* chosen 'Log it' in suggest
Submitted == {"confirm", "number", "empty", "not_number"}
CountSubmitted ==
    In("log_exercise", "prompt") /\ app_ev'.act \in Submitted /\ app_ev'.ret # PyNone
LogChosen ==
    /\ In("log_routine", "confirm") \/ In("suggest_exercise", "menu")
    /\ app_ev'.act = "confirm"
    /\ app_ev'.ret = PyStr("log")
RecordsAdded ==
    Len(exercises_rows') + Len(routine_rows') - Len(exercises_rows) - Len(routine_rows)

\* C37: in the interactive session a completion record is inserted only by
\* the step in which the user confirms the last step of log exercise, log
\* routine or suggest, and that step inserts exactly one record; every
\* other step, a cancellation or the choice of Back included, inserts
\* none.
C37_LoggedOnlyOnConfirm ==
    [][/\ Kept(exercises_rows, exercises_rows') /\ Kept(routine_rows, routine_rows')
       /\ RecordsAdded = IF CountSubmitted \/ LogChosen THEN 1 ELSE 0]_vars

\* 'Log it' was chosen for the second suggestion, after 'Another'
C37_LoggedAfterAnother ==
    /\ In("suggest_exercise", "press_any_key")
    /\ Len(stack) >= 3
    /\ stack[Len(stack) - 1].fn = "suggest_exercise"
    /\ app_ev.ret = PyStr("log")
    /\ exercises_rows # <<>>
    /\ exercises_rows[Len(exercises_rows)].task_description = PyStr("manual")

\* `self.selected = selected or set()`: a non-empty set the caller passes is
\* the very object the menu toggles; an empty one is replaced by a new set
caller_selected == IF passed # {} THEN selected ELSE passed

\* C38: cancelling a multi-select menu after any sequence of toggles leaves
\* the set the caller passed as the initial selection exactly as it was
\* passed
C38_CancelKeepsCallerSet ==
    (multi_select /\ menu_pc = "returned" /\ cancelled) => caller_selected = passed

\* the routine the editor frame at depth d of stack stk works on, given the
\* configuration cfg held
RoutineAt(stk, cfg, d) ==
    IF stk[d].loc.is_new THEN stk[d].loc.routine
    ELSE cfg.v["custom_routines"].v[stk[d].loc.idx + 1]

\* the step in which the builder returns after Cancel or Escape
BuilderCancelled ==
    /\ app_pc = "running"
    /\ In("build_routine_exercises", "menu")
    /\ app_ev' # app_ev \/ stack' # stack
    /\ app_ev'.fn = "build_routine_exercises"
    /\ app_ev'.ret \in {PyNone, PyStr("cancel")}
    /\ Len(stack') = Len(stack) - 1

\* C39: when the routine exercise builder is left by Cancel or Escape, the
\* routine's exercise list is the list it had when the builder was opened
C39_CancelRestoresList ==
    [][BuilderCancelled =>
          get(RoutineAt(stack', app_config', Len(stack')), "exercises", PyNone)
             = Top.loc.opened]_vars

\* the last command was a `suggest` that proposed an exercise
Proposed == cmd = "suggest" /\ cmd_out # <<>>

OwnedHeld ==
    LET equipment == get(app_config, "equipment", PyList(<<PyStr("none")>>)).v
    IN { equipment[i] : i \in 1..Len(equipment) } \cup { PyStr("none") }
PassesHeld(e) == Requires(e) = {} \/ Requires(e) \cap OwnedHeld # {}
CatalogueHeld ==
    { EXERCISES[i] : i \in 1..Len(EXERCISES) } \cup
    { config_list("custom_exercises")[i] : i \in 1..Len(config_list("custom_exercises")) }

\* C40, the interactive Suggest action: the exercise suggest_exercise shows
\* passes the same filter against the configuration held, it shows none
\* when no exercise passes, and it never writes the pending document
C40_InteractiveSuggestion ==
    /\ (app_pc = "running" /\ Top.fn = "suggest_exercise" /\ Top.pc = "menu") =>
          /\ Top.loc.exercise \in CatalogueHeld
          /\ PassesHeld(Top.loc.exercise)
    /\ (app_pc = "running" /\ Top.fn = "suggest_exercise" /\ Top.pc = "menu") =>
          \E e \in CatalogueHeld : PassesHeld(e)
    /\ pending_file = Absent

====
